---- MODULE Spec2Model ----
(***************************************************************************)
(* State-machine model of the MCP OAuth client subsystem of crush:         *)
(*   - TokenStore (persistent JSON map, Load / Save under an RWMutex)      *)
(*   - callbackServer and StartAuthFlow (loopback callback, single latch)  *)
(*   - OAuthTokenProvider and oauthRoundTripper (cache / store / refresh / *)
(*     authorize, bearer injection and the 401 retry)                      *)
(* Three specifications share the module: SpecStore, SpecCallback and      *)
(* SpecProvider.  Each one drives its own component and keeps the          *)
(* variables of the other components at their initial values.              *)
(***************************************************************************)
EXTENDS Integers, Sequences, FiniteSets, TLC

VARIABLES
    file,       \* the store file mcp.json: [kind, data]
    smu,        \* TokenStore.mu: [writer, readers]
    spc,        \* store client -> position inside Load / Save
    sop,        \* store client -> the call in progress [kind, name, entry]
    sloc,       \* store client -> Save's local map `store`
    sret,       \* store client -> the value returned / about to be returned
    spre,       \* history: store client -> the file when it took the lock
    lastSaved,  \* history: name -> the entry of the last successful Save
    \* ---- callbackServer and StartAuthFlow
    hpc,        \* server goroutine -> position (request handlers and Serve)
    hres,       \* server goroutine -> the callbackResult it hands to sendResult
    onceDone,   \* callbackServer.once: its done flag
    onceM,      \* callbackServer.once: the holder of its mutex
    resultCh,   \* callbackServer.result, a channel of capacity 1
    flow,       \* StartAuthFlow: position
    received,   \* StartAuthFlow: [got, result] from waitForCallback
    flowRet,    \* StartAuthFlow: [err, token] returned
    closed,     \* callbackServer: Shutdown has been called
    exchangeLog,\* requests sent to the token endpoint by exchangeToken
    attempts,   \* history: results in the order sendResult reached the latch
    delivered,  \* history: results put on the result channel
    \* ---- OAuthTokenProvider and oauthRoundTripper
    now,        \* the clock (time.Now, in model seconds)
    ptoken,     \* OAuthTokenProvider.token: [set, tok]
    pconfig,    \* OAuthTokenProvider.config: [ClientID, ClientSecret, RegistrationEndpoint]
    authFunc,   \* OAuthTokenProvider.authFunc is non-nil
    pmu,        \* OAuthTokenProvider.mu: its holder
    rtmu,       \* oauthRoundTripper.mu: its holder
    issued,     \* number of access tokens the authorization server has issued
    writable,   \* the provider's writes of the token file succeed
    cl,         \* caller -> the call in progress, its locals and its history
    \* ---- the token file in the file system
    dirMode,    \* permission bits of the file's directory, "absent" if none
    fileMode,   \* permission bits of the file, "absent" if none
    saveDone,   \* history: outcome of the last Save, "none" once the modes
                \* were changed from outside
    \* ---- authorizeURL
    aCfg,       \* the Config passed: [ClientID, AuthURL, Scopes, RedirectURI]
    aState,     \* the state passed
    aChallenge, \* the PKCE challenge passed
    aResult,    \* [called, err, url]: what authorizeURL returned
    \* ---- Config.Validate
    vCfg,       \* the Config Validate is called on (its receiver)
    vHist,      \* the calls of Validate so far: [err, before, after] each
    \* ---- DiscoverOAuth, resolveOAuthConfig and buildHTTPTransport
    dSrv,       \* the MCP server's config: [URL, OAuth]
    dResp,      \* what the server answers to the well-known request
    dDisc,      \* [called, cfg, err]: what DiscoverOAuth returned
    dTransport, \* [built, oauth, cfg]: the transport buildHTTPTransport built
    \* ---- exchangeToken, RefreshToken and doTokenRequest (part_004)
    tCall,      \* [grant, resp, time]: the request, the answer, the time
    tOut,       \* [called, tok, err, status, body]: what the request returned
    \* ---- authorization flows of providers that may register dynamically
    fl,         \* flow -> [pc, config, reg, cfg, verifier, challenge, url, form, port, err]
    listening,  \* the ports callback servers are bound to
    \* ---- Initialize and WaitForInit (part_002)
    initDone,   \* the channel initDone: "open" or "closed"
    initOnce,   \* initOnce has run its function
    ipc,        \* call of Initialize -> its position
    wg,         \* call of Initialize -> its WaitGroup counter
    wpc,        \* caller of WaitForInit -> its position
    wctx,       \* caller of WaitForInit -> its context is done
    wret,       \* caller of WaitForInit -> what it returned
    \* ---- hasRepeatedToolCalls (internal/agent/loop_detection.go)
    lSteps,     \* the argument steps: the content of each step
    lWindow,    \* the argument windowSize
    lMax,       \* the argument maxRepeats
    lOut,       \* [called, result]: what the call returned
    \* ---- the mutexes of round tripper, provider and store together
    th,         \* thread -> [op, calls, store, pc, held]
    lk          \* [rt, p, s]: owner of rt.mu, owner of p.mu, state of s.mu

storeClientVars == <<smu, spc, sop, sloc, sret, spre, lastSaved>>

storeVars == <<file, storeClientVars>>

cbVars == <<hpc, hres, onceDone, onceM, resultCh, flow, received, flowRet,
            closed, exchangeLog, attempts, delivered>>

provVars == <<now, ptoken, pconfig, authFunc, pmu, rtmu, issued, writable, cl>>

fsVars == <<dirMode, fileMode, saveDone>>

authVars == <<aCfg, aState, aChallenge, aResult>>

validateVars == <<vCfg, vHist>>

discVars == <<dSrv, dResp, dDisc, dTransport>>

tokenVars == <<tCall, tOut>>

flowVars == <<fl, listening>>

initVars == <<initDone, initOnce, ipc, wg, wpc, wctx, wret>>

loopVars == <<lSteps, lWindow, lMax, lOut>>

lockVars == <<th, lk>>

extVars == <<flowVars, initVars, loopVars, lockVars>>

cfgVars == <<validateVars, discVars, tokenVars>>

vars == <<storeVars, cbVars, provVars, fsVars, authVars, cfgVars, extVars>>

\* What an action of one component leaves alone.
notStore == <<cbVars, provVars, fsVars, authVars, cfgVars, extVars>>
notCallback == <<storeVars, provVars, fsVars, authVars, cfgVars, extVars>>
notProvider == <<storeClientVars, cbVars, fsVars, authVars, cfgVars, extVars>>
notFs == <<storeClientVars, cbVars, provVars, authVars, cfgVars, extVars>>
notAuthorize == <<storeVars, cbVars, provVars, fsVars, cfgVars, extVars>>
notValidate == <<storeVars, cbVars, provVars, fsVars, authVars, discVars, tokenVars, extVars>>
notDiscovery == <<storeVars, cbVars, provVars, fsVars, authVars, validateVars, tokenVars, extVars>>
notTokenRequest == <<storeVars, cbVars, provVars, fsVars, authVars, validateVars, discVars, extVars>>
notFlows == <<storeVars, cbVars, provVars, fsVars, authVars, cfgVars, initVars, loopVars, lockVars>>
notInit == <<storeVars, cbVars, provVars, fsVars, authVars, cfgVars, flowVars, loopVars, lockVars>>
notLoop == <<storeVars, cbVars, provVars, fsVars, authVars, cfgVars, flowVars, initVars, lockVars>>
notLocks == <<storeVars, cbVars, provVars, fsVars, authVars, cfgVars, flowVars, initVars, loopVars>>

(***************************************************************************)
(* TokenStore: data                                                        *)
(***************************************************************************)

\* MCP server names used as keys of the store.
Names == {"a", "b"}

StrFields == {"access_token", "refresh_token", "client_id", "client_secret"}
IntFields == {"expires_in", "expires_at"}
Fields == StrFields \cup IntFields

\* The Go zero value of a field of MCPOAuthData.
ZeroOf(f) == IF f \in IntFields THEN 0 ELSE ""

MCPOAuthData(at, rt, ein, eat, cid, cs) ==
    [access_token |-> at, refresh_token |-> rt, expires_in |-> ein,
     expires_at |-> eat, client_id |-> cid, client_secret |-> cs]

ZeroEntry == MCPOAuthData("", "", 0, 0, "", "")

\* json.Marshal of one *MCPOAuthData: every field is tagged omitempty, so a
\* field holding its zero value is left out of the object.
MarshalEntryDropsExpiresAt(e) ==
    [f \in {g \in Fields : e[g] # ZeroOf(g) /\ g # "expires_at"} |-> e[f]]

MarshalEntry(e) ==
    [f \in {g \in Fields : e[g] # ZeroOf(g)} |-> e[f]]

\* json.Unmarshal of one object into a fresh MCPOAuthData: a key that is
\* absent leaves the field at its zero value.
UnmarshalEntry(o) ==
    [f \in Fields |-> IF f \in DOMAIN o THEN o[f] ELSE ZeroOf(f)]

\* The file system's view of mcp.json.
\*   absent      the file does not exist
\*   unreadable  the file exists but os.ReadFile fails (not IsNotExist)
\*   garbage     the file is read but json.Unmarshal rejects its content
\*   json        the file holds a JSON object name -> entry object (data)
NoData == [n \in {} |-> ZeroEntry]
Absent == [kind |-> "absent", data |-> NoData]
Unreadable == [kind |-> "unreadable", data |-> NoData]
Garbage == [kind |-> "garbage", data |-> NoData]
JsonFile(objs) == [kind |-> "json", data |-> objs]

\* json.Unmarshal(data, &store) into map[string]*MCPOAuthData.
UnmarshalStore(objs) == [n \in DOMAIN objs |-> UnmarshalEntry(objs[n])]

\* json.MarshalIndent(store, "", "  ").
MarshalStore(m) == [n \in DOMAIN m |-> MarshalEntry(m[n])]

NoEntry == [found |-> FALSE, entry |-> ZeroEntry, err |-> ""]
LoadError(e) == [found |-> FALSE, entry |-> ZeroEntry, err |-> e]
Found(e) == [found |-> TRUE, entry |-> e, err |-> ""]

\* TokenStore.Load between RLock and RUnlock: (entry | nil, error).
LoadTreatsUnreadableAsMissing(f, mcpName) ==
    IF f.kind \in {"absent", "unreadable"} THEN NoEntry
    ELSE IF f.kind = "garbage" THEN LoadError("parse")
    ELSE IF mcpName \in DOMAIN f.data
         THEN Found(UnmarshalStore(f.data)[mcpName])
         ELSE NoEntry

Load(f, mcpName) ==
    IF f.kind = "absent" THEN NoEntry
    ELSE IF f.kind = "unreadable" THEN LoadError("read")
    ELSE IF f.kind = "garbage" THEN LoadError("parse")
    ELSE IF mcpName \in DOMAIN f.data
         THEN Found(UnmarshalStore(f.data)[mcpName])
         ELSE NoEntry

\* The first half of TokenStore.Save: read and parse the existing file.
\* [err, store]: err # "" is the early return, store is the local map.
SaveReadOverwritesGarbage(f) ==
    IF f.kind \in {"absent", "garbage"} THEN [err |-> "", store |-> NoData]
    ELSE IF f.kind = "unreadable" THEN [err |-> "read", store |-> NoData]
    ELSE [err |-> "", store |-> UnmarshalStore(f.data)]

SaveRead(f) ==
    IF f.kind = "absent" THEN [err |-> "", store |-> NoData]
    ELSE IF f.kind = "unreadable" THEN [err |-> "read", store |-> NoData]
    ELSE IF f.kind = "garbage" THEN [err |-> "parse", store |-> NoData]
    ELSE [err |-> "", store |-> UnmarshalStore(f.data)]

\* store[mcpName] = oauthData
Put(m, mcpName, e) ==
    [n \in DOMAIN m \cup {mcpName} |-> IF n = mcpName THEN e ELSE m[n]]

\* The outcomes of the second half of Save: MkdirAll, MarshalIndent,
\* WriteFile.  A failing MkdirAll or a WriteFile that cannot open the file
\* leaves the file as it was.
WriteOutcomes == {"", "mkdir", "write"}

\* TokenStore.Save as one step (used where the caller holds the provider
\* mutex and no other client of the store runs): [err, file].
Save(f, mcpName, e, io) ==
    LET r == SaveRead(f) IN
    IF r.err # "" THEN [err |-> r.err, file |-> f]
    ELSE IF io # "" THEN [err |-> io, file |-> f]
    ELSE [err |-> "", file |-> JsonFile(MarshalStore(Put(r.store, mcpName, e)))]

(***************************************************************************)
(* TokenStore: Load and Save as concurrent calls                           *)
(***************************************************************************)

StoreClients == {"s1", "s2"}

\* Entries handed to Save: all fields set, no field set, token half only;
\* ECred (client half only) occurs in an initial file.
EFull == MCPOAuthData("at1", "rt1", 3600, 1700003600, "cid", "sec")
ETok == MCPOAuthData("at2", "", 0, 1700000000, "", "")
ECred == MCPOAuthData("", "", 0, 0, "cid2", "")
SaveInputs == {EFull, ZeroEntry, ETok}

InitFiles ==
    {Absent, Unreadable, Garbage, JsonFile(NoData),
     JsonFile(MarshalStore([n \in {"a"} |-> EFull])),
     JsonFile(MarshalStore([n \in Names |-> IF n = "a" THEN ETok ELSE ECred]))}

NoCall == [kind |-> "none", name |-> "", entry |-> ZeroEntry]
NoLast == [has |-> FALSE, entry |-> ZeroEntry]

\* sync.RWMutex
WLockFreeNoExclusion(mu) == TRUE

WLockFree(mu) == mu.writer = "none" /\ mu.readers = {}

RLockFree(mu) == mu.writer = "none"

StoreInit ==
    /\ file \in InitFiles
    /\ smu = [writer |-> "none", readers |-> {}]
    /\ spc = [p \in StoreClients |-> "idle"]
    /\ sop = [p \in StoreClients |-> NoCall]
    /\ sloc = [p \in StoreClients |-> NoData]
    /\ sret = [p \in StoreClients |-> NoEntry]
    /\ spre = [p \in StoreClients |-> Absent]
    /\ lastSaved = [n \in Names |->
                      IF file.kind = "json" /\ n \in DOMAIN file.data
                      THEN [has |-> TRUE, entry |-> UnmarshalEntry(file.data[n])]
                      ELSE NoLast]

\* A client calls Save(name, e).
SaveCall(p) ==
    /\ spc[p] = "idle"
    /\ \E n \in Names, e \in SaveInputs :
         sop' = [sop EXCEPT ![p] = [kind |-> "Save", name |-> n, entry |-> e]]
    /\ spc' = [spc EXCEPT ![p] = "save_lock"]
    /\ sret' = [sret EXCEPT ![p] = NoEntry]
    /\ UNCHANGED <<file, smu, sloc, spre, lastSaved>>
    /\ UNCHANGED notStore

\* s.mu.Lock()
SaveLock(p) ==
    /\ spc[p] = "save_lock"
    /\ WLockFree(smu)
    /\ smu' = [smu EXCEPT !.writer = p]
    /\ spre' = [spre EXCEPT ![p] = file]
    /\ spc' = [spc EXCEPT ![p] = "save_read"]
    /\ UNCHANGED <<file, sop, sloc, sret, lastSaved>>
    /\ UNCHANGED notStore

\* os.ReadFile, json.Unmarshal, store[mcpName] = oauthData
SaveReadStep(p) ==
    /\ spc[p] = "save_read"
    /\ LET r == SaveRead(file) IN
         IF r.err # ""
         THEN /\ sret' = [sret EXCEPT ![p] = LoadError(r.err)]
              /\ spc' = [spc EXCEPT ![p] = "save_unlock"]
              /\ UNCHANGED sloc
         ELSE /\ sloc' = [sloc EXCEPT ![p] = Put(r.store, sop[p].name, sop[p].entry)]
              /\ spc' = [spc EXCEPT ![p] = "save_write"]
              /\ UNCHANGED sret
    /\ UNCHANGED <<file, smu, sop, spre, lastSaved>>
    /\ UNCHANGED notStore

\* os.MkdirAll, json.MarshalIndent, os.WriteFile
SaveWrite(p) ==
    /\ spc[p] = "save_write"
    /\ \E io \in WriteOutcomes :
         IF io # ""
         THEN /\ sret' = [sret EXCEPT ![p] = LoadError(io)]
              /\ UNCHANGED <<file, lastSaved>>
         ELSE /\ file' = JsonFile(MarshalStore(sloc[p]))
              /\ lastSaved' = [lastSaved EXCEPT ![sop[p].name] =
                                 [has |-> TRUE, entry |-> sop[p].entry]]
              /\ sret' = [sret EXCEPT ![p] = NoEntry]
    /\ spc' = [spc EXCEPT ![p] = "save_unlock"]
    /\ UNCHANGED <<smu, sop, sloc, spre>>
    /\ UNCHANGED notStore

\* defer s.mu.Unlock()
SaveUnlock(p) ==
    /\ spc[p] = "save_unlock"
    /\ smu' = [smu EXCEPT !.writer = IF smu.writer = p THEN "none" ELSE smu.writer]
    /\ spc' = [spc EXCEPT ![p] = "ret"]
    /\ UNCHANGED <<file, sop, sloc, sret, spre, lastSaved>>
    /\ UNCHANGED notStore

\* A client calls Load(name).
LoadCall(p) ==
    /\ spc[p] = "idle"
    /\ \E n \in Names :
         sop' = [sop EXCEPT ![p] = [kind |-> "Load", name |-> n, entry |-> ZeroEntry]]
    /\ spc' = [spc EXCEPT ![p] = "load_lock"]
    /\ sret' = [sret EXCEPT ![p] = NoEntry]
    /\ UNCHANGED <<file, smu, sloc, spre, lastSaved>>
    /\ UNCHANGED notStore

\* s.mu.RLock()
LoadLock(p) ==
    /\ spc[p] = "load_lock"
    /\ RLockFree(smu)
    /\ smu' = [smu EXCEPT !.readers = @ \cup {p}]
    /\ spre' = [spre EXCEPT ![p] = file]
    /\ spc' = [spc EXCEPT ![p] = "load_read"]
    /\ UNCHANGED <<file, sop, sloc, sret, lastSaved>>
    /\ UNCHANGED notStore

\* os.ReadFile, json.Unmarshal, return store[mcpName]
LoadRead(p) ==
    /\ spc[p] = "load_read"
    /\ sret' = [sret EXCEPT ![p] = Load(file, sop[p].name)]
    /\ spc' = [spc EXCEPT ![p] = "load_unlock"]
    /\ UNCHANGED <<file, smu, sop, sloc, spre, lastSaved>>
    /\ UNCHANGED notStore

\* defer s.mu.RUnlock()
LoadUnlock(p) ==
    /\ spc[p] = "load_unlock"
    /\ smu' = [smu EXCEPT !.readers = @ \ {p}]
    /\ spc' = [spc EXCEPT ![p] = "ret"]
    /\ UNCHANGED <<file, sop, sloc, sret, spre, lastSaved>>
    /\ UNCHANGED notStore

\* The call has returned; the client is free for its next call.
StoreReturn(p) ==
    /\ spc[p] = "ret"
    /\ spc' = [spc EXCEPT ![p] = "idle"]
    /\ sop' = [sop EXCEPT ![p] = NoCall]
    /\ sloc' = [sloc EXCEPT ![p] = NoData]
    /\ sret' = [sret EXCEPT ![p] = NoEntry]
    /\ spre' = [spre EXCEPT ![p] = Absent]
    /\ UNCHANGED <<file, smu, lastSaved>>
    /\ UNCHANGED notStore

(***************************************************************************)
(* TokenStore.Save and the permission bits of the file and its directory   *)
(***************************************************************************)

\* The permissions Save passes to os.WriteFile and to os.MkdirAll.
FilePerm == "0600"
DirPerm == "0700"

\* Permission bits a file or a directory may have got from elsewhere.
FileModes == {FilePerm, "0644"}
DirModes == {DirPerm, "0755"}

\* os.MkdirAll(dir, perm): creates the directory with perm when there is
\* none; "If path is already a directory, MkdirAll does nothing".
MkdirAll(mode, perm) == IF mode = "absent" THEN perm ELSE mode

\* os.WriteFile(name, data, perm): creates the file with perm when there is
\* none; otherwise truncates it "without changing permissions".
WriteFileMode(mode, perm) == IF mode = "absent" THEN perm ELSE mode

FsInit ==
    /\ file \in InitFiles
    /\ dirMode \in DirModes \cup {"absent"}
    /\ fileMode \in (IF file = Absent THEN {"absent"} ELSE FileModes)
    /\ dirMode = "absent" => file = Absent
    /\ saveDone = "none"

FsIdle ==
    /\ dirMode = DirPerm
    /\ fileMode = "absent"
    /\ saveDone = "none"

\* One whole Save(mcpName, e): read and parse, MkdirAll, WriteFile.
SaveFile ==
    \E mcpName \in Names, e \in SaveInputs, io \in WriteOutcomes :
        LET r == Save(file, mcpName, e, io)
            read == SaveRead(file)
        IN /\ file' = r.file
           /\ saveDone' = IF r.err = "" THEN "ok" ELSE "err"
           /\ dirMode' = IF read.err = "" /\ io # "mkdir"
                         THEN MkdirAll(dirMode, DirPerm) ELSE dirMode
           /\ fileMode' = IF r.err = "" THEN WriteFileMode(fileMode, FilePerm) ELSE fileMode
           /\ UNCHANGED notFs

\* Someone changes the permission bits of the file.
ChmodFile ==
    /\ fileMode # "absent"
    /\ \E mode \in FileModes \ {fileMode} : fileMode' = mode
    /\ saveDone' = "none"
    /\ UNCHANGED <<file, dirMode>>
    /\ UNCHANGED notFs

\* Someone changes the permission bits of the directory.
ChmodDir ==
    /\ dirMode # "absent"
    /\ \E mode \in DirModes \ {dirMode} : dirMode' = mode
    /\ saveDone' = "none"
    /\ UNCHANGED <<file, fileMode>>
    /\ UNCHANGED notFs

\* Someone removes the file.
RemoveFile ==
    /\ fileMode # "absent"
    /\ file' = Absent
    /\ fileMode' = "absent"
    /\ saveDone' = "none"
    /\ UNCHANGED dirMode
    /\ UNCHANGED notFs

(***************************************************************************)
(* callbackServer (callback.go) and StartAuthFlow (flow.go)                *)
(***************************************************************************)

\* The number of requests that reach the callback path during one flow.
MaxRequests == 2

\* Goroutines of the callback server: 0 is the goroutine started by Start,
\* which runs server.Serve; 1..MaxRequests run handleCallback, one each.
ServeGoroutine == 0
Handlers == 1..MaxRequests
Goroutines == {ServeGoroutine} \cup Handlers

callbackResult(code, state, err) == [Code |-> code, State |-> state, Error |-> err]
NoResult == callbackResult("", "", "")

\* The state generateState produced for this flow, and the values a
\* request's query string may carry.
FlowState == "S1"
QueryCodes == {"", "code1"}
QueryStates == {"", "S1", "S2"}
QueryErrors == {"", "access_denied"}
QueryErrorDescriptions == {"", "denied by user"}

\* fmt.Sprintf("%s: %s", errMsg, errDesc)
JoinError(errMsg, errDesc) ==
    IF errMsg = "access_denied" /\ errDesc = "denied by user"
    THEN "access_denied: denied by user"
    ELSE "joined"

\* The callbackResult handleCallback passes to sendResult.
handleCallbackResult(code, state, errMsg, errDesc) ==
    IF errMsg # ""
    THEN callbackResult("", "", IF errDesc # "" THEN JoinError(errMsg, errDesc) ELSE errMsg)
    ELSE IF code = ""
         THEN callbackResult("", "", "no authorization code received")
         ELSE callbackResult(code, state, "")

\* The callbackResult the Serve goroutine passes to sendResult when Serve
\* returns an error other than http.ErrServerClosed.
ServeErrorResult == callbackResult("", "", "serve error")

\* sync.Once: whether Do still has to run f.
OnceMustRunAlways(done) == TRUE

OnceMustRun(done) == ~done

\* StartAuthFlow's two checks on the callback result.
ResultHasError(result) == result.Error # ""

StateMismatchNeverDetected(result, state) == FALSE

StateMismatch(result, state) == result.State # state

CallbackInit ==
    /\ hpc = [g \in Goroutines |-> IF g = ServeGoroutine THEN "serving" ELSE "idle"]
    /\ hres = [g \in Goroutines |-> NoResult]
    /\ onceDone = FALSE
    /\ onceM = -1
    /\ resultCh = <<>>
    /\ flow = "waiting"
    /\ received = [got |-> FALSE, result |-> NoResult]
    /\ flowRet = [err |-> "", token |-> FALSE]
    /\ closed = FALSE
    /\ exchangeLog = <<>>
    /\ attempts = <<>>
    /\ delivered = <<>>

\* No flow is running (the value of the callback variables in the
\* specifications of the other components).
CallbackIdle ==
    /\ hpc = [g \in Goroutines |-> "finished"]
    /\ hres = [g \in Goroutines |-> NoResult]
    /\ onceDone = FALSE
    /\ onceM = -1
    /\ resultCh = <<>>
    /\ flow = "none"
    /\ received = [got |-> FALSE, result |-> NoResult]
    /\ flowRet = [err |-> "", token |-> FALSE]
    /\ closed = TRUE
    /\ exchangeLog = <<>>
    /\ attempts = <<>>
    /\ delivered = <<>>

\* A request reaches the callback path: handleCallback reads the query and
\* calls sendResult with the result it built.
HandleCallback(h) ==
    /\ hpc[h] = "idle"
    /\ ~closed
    /\ \E code \in QueryCodes, state \in QueryStates,
          errMsg \in QueryErrors, errDesc \in QueryErrorDescriptions :
         hres' = [hres EXCEPT ![h] = handleCallbackResult(code, state, errMsg, errDesc)]
    /\ hpc' = [hpc EXCEPT ![h] = "once_do"]
    /\ UNCHANGED <<onceDone, onceM, resultCh, flow, received, flowRet, closed,
                   exchangeLog, attempts, delivered>>
    /\ UNCHANGED notCallback

\* server.Serve returns an error that is not http.ErrServerClosed.
ServeFails ==
    /\ hpc[ServeGoroutine] = "serving"
    /\ ~closed
    /\ hres' = [hres EXCEPT ![ServeGoroutine] = ServeErrorResult]
    /\ hpc' = [hpc EXCEPT ![ServeGoroutine] = "once_do"]
    /\ UNCHANGED <<onceDone, onceM, resultCh, flow, received, flowRet, closed,
                   exchangeLog, attempts, delivered>>
    /\ UNCHANGED notCallback

\* server.Serve returns http.ErrServerClosed after Shutdown.
ServeClosed ==
    /\ hpc[ServeGoroutine] = "serving"
    /\ closed
    /\ hpc' = [hpc EXCEPT ![ServeGoroutine] = "finished"]
    /\ UNCHANGED <<hres, onceDone, onceM, resultCh, flow, received, flowRet, closed,
                   exchangeLog, attempts, delivered>>
    /\ UNCHANGED notCallback

\* sendResult: cs.once.Do, the fast path (the done flag is already set).
OnceFast(g) ==
    /\ hpc[g] = "once_do"
    /\ ~OnceMustRun(onceDone)
    /\ attempts' = Append(attempts, hres[g])
    /\ hpc' = [hpc EXCEPT ![g] = "respond"]
    /\ UNCHANGED <<hres, onceDone, onceM, resultCh, flow, received, flowRet, closed,
                   exchangeLog, delivered>>
    /\ UNCHANGED notCallback

\* sendResult: cs.once.Do, the slow path takes the Once's mutex.
OnceLock(g) ==
    /\ hpc[g] = "once_do"
    /\ OnceMustRun(onceDone)
    /\ onceM = -1
    /\ onceM' = g
    /\ hpc' = [hpc EXCEPT ![g] = "once_slow"]
    /\ UNCHANGED <<hres, onceDone, resultCh, flow, received, flowRet, closed,
                   exchangeLog, attempts, delivered>>
    /\ UNCHANGED notCallback

\* sendResult: under the Once's mutex, run cs.result <- result if the done
\* flag is still clear, set the flag, unlock.  The send blocks while the
\* channel is full.
OnceSlow(g) ==
    /\ hpc[g] = "once_slow"
    /\ attempts' = Append(attempts, hres[g])
    /\ IF OnceMustRun(onceDone)
       THEN /\ Len(resultCh) < 1
            /\ resultCh' = Append(resultCh, hres[g])
            /\ delivered' = Append(delivered, hres[g])
            /\ onceDone' = TRUE
       ELSE UNCHANGED <<resultCh, delivered, onceDone>>
    /\ onceM' = -1
    /\ hpc' = [hpc EXCEPT ![g] = "respond"]
    /\ UNCHANGED <<hres, flow, received, flowRet, closed, exchangeLog>>
    /\ UNCHANGED notCallback

\* handleCallback writes its HTML page and returns; the Serve goroutine ends.
Respond(g) ==
    /\ hpc[g] = "respond"
    /\ hpc' = [hpc EXCEPT ![g] = "finished"]
    /\ UNCHANGED <<hres, onceDone, onceM, resultCh, flow, received, flowRet, closed,
                   exchangeLog, attempts, delivered>>
    /\ UNCHANGED notCallback

\* waitForCallback: case result := <-cs.result
WaitReceives ==
    /\ flow = "waiting"
    /\ resultCh # <<>>
    /\ received' = [got |-> TRUE, result |-> Head(resultCh)]
    /\ resultCh' = Tail(resultCh)
    /\ flow' = "check"
    /\ UNCHANGED <<hpc, hres, onceDone, onceM, flowRet, closed, exchangeLog,
                   attempts, delivered>>
    /\ UNCHANGED notCallback

\* flowCtx, made by context.WithTimeout(ctx, opts.Timeout), can be done:
\* its timeout elapses or the caller's context is cancelled.
ContextNeverDone == FALSE

ContextDone == TRUE

\* waitForCallback: case <-ctx.Done() (timeout or cancellation); StartAuthFlow
\* returns the error and its deferred server.Close runs.
WaitCancelled ==
    /\ flow = "waiting"
    /\ ContextDone
    /\ flowRet' = [err |-> "failed waiting for OAuth callback", token |-> FALSE]
    /\ flow' = "returned"
    /\ closed' = TRUE
    /\ UNCHANGED <<hpc, hres, onceDone, onceM, resultCh, received, exchangeLog,
                   attempts, delivered>>
    /\ UNCHANGED notCallback

\* StartAuthFlow after waitForCallback: the error check and the state check.
CheckResult ==
    /\ flow = "check"
    /\ IF ResultHasError(received.result)
       THEN /\ flowRet' = [err |-> "failed OAuth authorization", token |-> FALSE]
            /\ flow' = "returned"
            /\ closed' = TRUE
       ELSE IF StateMismatch(received.result, FlowState)
       THEN /\ flowRet' = [err |-> "mismatch in OAuth state", token |-> FALSE]
            /\ flow' = "returned"
            /\ closed' = TRUE
       ELSE /\ flow' = "exchange"
            /\ UNCHANGED <<flowRet, closed>>
    /\ UNCHANGED <<hpc, hres, onceDone, onceM, resultCh, received, exchangeLog,
                   attempts, delivered>>
    /\ UNCHANGED notCallback

\* exchangeToken: one POST to the token endpoint, which answers 200 with a
\* token or fails; StartAuthFlow returns and its deferred server.Close runs.
ExchangeToken ==
    /\ flow = "exchange"
    /\ exchangeLog' = Append(exchangeLog, [code |-> received.result.Code])
    /\ \E ok \in BOOLEAN :
         flowRet' = [err |-> IF ok THEN "" ELSE "failed to exchange authorization code",
                     token |-> ok]
    /\ flow' = "returned"
    /\ closed' = TRUE
    /\ UNCHANGED <<hpc, hres, onceDone, onceM, resultCh, received, attempts, delivered>>
    /\ UNCHANGED notCallback

(***************************************************************************)
(* oauth.Token, the token endpoint, dynamic registration                   *)
(***************************************************************************)

\* Access tokens the authorization server hands out during one run, and the
\* last value of the clock.
MaxIssued == 2
MaxTime == 3

Token(at, rt, ein, eat) ==
    [AccessToken |-> at, RefreshToken |-> rt, ExpiresIn |-> ein, ExpiresAt |-> eat]
ZeroToken == Token("", "", 0, 0)
NilToken == [set |-> FALSE, tok |-> ZeroToken]
Some(t) == [set |-> TRUE, tok |-> t]

\* oauth.Token.IsExpired: true when expires_at <= now; a token with no
\* expires_at does not expire.
IsExpired(t, time) == t.ExpiresAt # 0 /\ t.ExpiresAt <= time

\* oauth.Token.SetExpiresAt: expires_at = now + expires_in.
SetExpiresAt(t, time) == [t EXCEPT !.ExpiresAt = time + t.ExpiresIn]

\* The authorization server issues a new access token on every grant
\* (RFC 6749, section 6): the n-th token it issues.
AccessTokens == <<"t1", "t2", "t3", "t4", "t5", "t6">>
\* What a token response may carry besides the access token: a refresh
\* token or none, expires_in absent (0) or a lifetime of one second.
RefreshTokens == {"", "rt"}
ExpiresInValues == {0, 1}

\* doTokenRequest: the outcomes of one POST to the token endpoint made at
\* `time` when the server has issued `n` tokens: an error (transport, non-200
\* status, unparseable body) or the token built from a 200 response.
doTokenRequest(n, time) ==
    {[ok |-> FALSE, tok |-> ZeroToken]} \cup
    (IF n < MaxIssued
     THEN {[ok |-> TRUE,
            tok |-> SetExpiresAt(Token(AccessTokens[n + 1], rt, ein, 0), time)] :
              rt \in RefreshTokens, ein \in ExpiresInValues}
     ELSE {})

\* The function installed by SetAuthFunc runs StartAuthFlow, whose token
\* comes from exchangeToken, that is from doTokenRequest; it may also fail.
AuthFuncOutcomes(n, time) == doTokenRequest(n, time)

\* RegisterClient: an error, or the client_id / client_secret of the
\* registration response (client_id is whatever the response carries).
RegisterClientOutcomes ==
    {[ok |-> FALSE, ClientID |-> "", ClientSecret |-> ""],
     [ok |-> TRUE, ClientID |-> "rid", ClientSecret |-> ""],
     [ok |-> TRUE, ClientID |-> "", ClientSecret |-> ""]}

(***************************************************************************)
(* OAuthTokenProvider (part_000): helpers                                  *)
(***************************************************************************)

\* OAuthTokenProvider.name
ProviderName == "a"

Callers == {"c1", "c2"}

Config(cid, cs, reg) == [ClientID |-> cid, ClientSecret |-> cs, RegistrationEndpoint |-> reg]

\* Config.SupportsDynamicRegistration
SupportsDynamicRegistration(c) == c.RegistrationEndpoint # ""

\* dataToToken
dataToTokenWithoutRefresh(data) ==
    Token(data.access_token, "", data.expires_in, data.expires_at)

dataToToken(data) ==
    Token(data.access_token, data.refresh_token, data.expires_in, data.expires_at)

\* saveToken: load the entry (a load error counts as no entry), overwrite
\* its token fields, Save.  [err, file]
saveTokenSkipped(f, token, io) == [err |-> "", file |-> f]

saveTokenDropsClient(f, token, io) ==
    Save(f, ProviderName,
         MCPOAuthData(token.AccessToken, token.RefreshToken, token.ExpiresIn,
                      token.ExpiresAt, "", ""), io)

saveToken(f, token, io) ==
    LET l == Load(f, ProviderName)
        data == IF l.found THEN l.entry ELSE ZeroEntry
        upd == [data EXCEPT !.access_token = token.AccessToken,
                            !.refresh_token = token.RefreshToken,
                            !.expires_in = token.ExpiresIn,
                            !.expires_at = token.ExpiresAt]
    IN Save(f, ProviderName, upd, io)

\* RefreshToken's choice of the refresh token: that of the cached token when
\* it has one, otherwise that of the store entry, "" when there is none.
RefreshTokenOfCacheOnly(cache, f) ==
    IF cache.set THEN cache.tok.RefreshToken ELSE ""

RefreshTokenOf(cache, f) ==
    LET l == Load(f, ProviderName) IN
    IF cache.set /\ cache.tok.RefreshToken # ""
    THEN cache.tok.RefreshToken
    ELSE IF l.err = "" /\ l.found /\ l.entry.refresh_token # ""
         THEN l.entry.refresh_token
         ELSE ""

\* What the caller of saveToken makes of its error after a token was
\* obtained: it is logged or dropped, the call returns no error.
SaveTokenErrorReturned(saveErr) == saveErr

SaveTokenError(saveErr) == ""

\* The result of os.MkdirAll / os.WriteFile in the provider's Save: the
\* directory of the token file is writable for the whole run or it is not.
WriteOutcome(w) == IF w THEN "" ELSE "write"

\* ensureClientRegistration's saveData: the credentials of the registration
\* response creds and, when the store has an entry (data), its token fields.
RegistrationSaveDataDropsToken(found, data, creds) ==
    MCPOAuthData("", "", 0, 0, creds.ClientID, creds.ClientSecret)

RegistrationSaveData(found, data, creds) ==
    IF found
    THEN MCPOAuthData(data.access_token, data.refresh_token, data.expires_in,
                      data.expires_at, creds.ClientID, creds.ClientSecret)
    ELSE MCPOAuthData("", "", 0, 0, creds.ClientID, creds.ClientSecret)

\* ensureClientRegistration: the set of its outcomes [err, cfg, file, reg]
\* from config cfg and store file f, writable or not (the registration
\* response is the environment's choice).  reg tells whether RegisterClient
\* was called and how it ended: none | fail | ok.
ensureClientRegistration(cfg, f, w) ==
    IF cfg.ClientID # "" THEN {[err |-> "", cfg |-> cfg, file |-> f, reg |-> "none"]}
    ELSE LET l == Load(f, ProviderName) IN
    IF l.err # ""
    THEN {[err |-> "failed to load OAuth data", cfg |-> cfg, file |-> f, reg |-> "none"]}
    ELSE IF l.found /\ l.entry.client_id # ""
    THEN {[err |-> "",
           cfg |-> [cfg EXCEPT !.ClientID = l.entry.client_id,
                               !.ClientSecret = l.entry.client_secret],
           file |-> f, reg |-> "none"]}
    ELSE IF ~SupportsDynamicRegistration(cfg)
    THEN {[err |-> "no client_id configured", cfg |-> cfg, file |-> f, reg |-> "none"]}
    ELSE
      {[err |-> "dynamic client registration failed", cfg |-> cfg, file |-> f,
        reg |-> "fail"]} \cup
      {[err |-> "",
        cfg |-> [cfg EXCEPT !.ClientID = r.ClientID, !.ClientSecret = r.ClientSecret],
        file |-> Save(f, ProviderName, RegistrationSaveData(l.found, l.entry, r), io).file,
        reg |-> "ok"] :
          r \in {x \in RegisterClientOutcomes : x.ok}, io \in {WriteOutcome(w)}}

\* history: the counters nReg (calls of RegisterClient) and nRegOk (those that
\* succeeded) of call r after an ensureClientRegistration that ended as reg.
Registered(r, reg) ==
    [r EXCEPT !.nReg = IF reg.reg = "none" THEN @ ELSE @ + 1,
              !.nRegOk = IF reg.reg = "ok" THEN @ + 1 ELSE @]

\* sync.Mutex of the provider and of the round tripper.
ProviderMutexNeverHeld(mu) == TRUE

ProviderMutexFree(mu) == mu = "none"

RoundTripperMutexNeverHeld(mu) == TRUE

RoundTripperMutexFree(mu) == mu = "none"

\* The locals and the history of one call.
\*   op      EnsureToken | RefreshToken | RoundTrip (the call made by the caller)
\*   site    the call site of RefreshToken: direct | pre (RoundTrip, before
\*           sending) | forced (RoundTrip, after a 401)
\*   tok     EnsureToken's result; RoundTrip's `token`
\*   ntok    RefreshToken's result; RoundTrip's `newToken` after a 401
\*   rtk     loadOrRefreshStoredToken's stored.RefreshToken
\*   sends   invocations of the underlying transport by this RoundTrip
\*   bearer1, bearer2   the bearer of the first request and of the resend
\*   resp1, resp2       the status the transport answered to each ("" none)
\*   ret     the status of the response RoundTrip returned ("" none)
\*   err     the error returned; wrap, what RoundTrip wrapped it in
\*   history: forced (forced refreshes), nAuth / nRef (auth_fn invocations
\*   and refresh requests made to acquire the token), retAt (the clock when
\*   EnsureToken returned), conc (another call was in progress when this
\*   one began), miss (EnsureToken found no valid token in cache or store),
\*   handed (the token another call produced while this one had begun and
\*   EnsureToken had not returned), cache0 and load0 (p.token and the
\*   store's answer for the provider's name when EnsureToken began), reads
\*   (EnsureToken read the store), nRefOk (refresh requests that succeeded),
\*   at0 (the clock when EnsureToken began), grant (the refresh token the
\*   last refresh request carried)
IdleCall ==
    [pc |-> "idle", op |-> "none", site |-> "none", tok |-> NilToken, err |-> "",
     ntok |-> NilToken, rtk |-> "", sends |-> 0, bearer1 |-> "", bearer2 |-> "",
     resp1 |-> "", resp2 |-> "", ret |-> "", forced |-> 0, nAuth |-> 0, nRef |-> 0,
     wrap |-> "", retAt |-> 0, conc |-> FALSE, miss |-> FALSE, handed |-> NilToken,
     cache0 |-> NilToken, load0 |-> NoEntry, reads |-> FALSE, nRefOk |-> 0,
     at0 |-> 0, grant |-> "", nReg |-> 0, nRegOk |-> 0,
     cid |-> "none"]

\* Positions at which a call is inside EnsureToken or RefreshToken, past
\* p.mu.Lock().
InsideProvider == {"et_body", "et_refresh", "et_auth", "rf_body"}
\* Positions at which a call that acquires a token has begun and its
\* EnsureToken has not yet returned.
BeforeEnsureReturn == {"rt_lock", "et_lock", "et_body", "et_refresh", "et_auth"}

\* history: a call produced token t (auth_fn or refresh succeeded): every
\* other call still before the return of its EnsureToken is handed t.
Hand(c, t, calls) ==
    [d \in Callers |->
        IF d # c /\ calls[d].pc \in BeforeEnsureReturn
        THEN [calls[d] EXCEPT !.handed = Some(t)]
        ELSE calls[d]]

\* Where EnsureToken returns to.
AfterEnsure(r) == IF r.op = "RoundTrip" THEN "rt_checked" ELSE "ret"

\* Where RefreshToken returns to.
AfterRefresh(r, failed) ==
    IF r.site = "direct" THEN "ret"
    ELSE IF failed THEN "rt_fail"
    ELSE IF r.site = "pre" THEN "rt_send" ELSE "rt_resend"

\* The statuses the underlying transport may answer; "err" is a transport
\* error (no response).
TransportOutcomes == {"200", "401", "err"}

(***************************************************************************)
(* OAuthTokenProvider and oauthRoundTripper: actions                       *)
(***************************************************************************)

\* Stored entries the provider may find at start-up: the clock starts at 2,
\* so expires_at = 1 is in the past and expires_at = 3 is in the future.
StoredExpiredWithRefresh == MCPOAuthData("t0", "rt", 1, 1, "cid", "")
StoredExpiredNoRefresh == MCPOAuthData("t0", "", 1, 1, "", "")
StoredValid == MCPOAuthData("t0", "rt", 1, 3, "cid", "")
StoredExpiredNoClient == MCPOAuthData("t0", "rt", 1, 1, "", "")
ProviderInitFiles ==
    {Absent, Garbage,
     JsonFile(MarshalStore([n \in {ProviderName} |-> StoredExpiredWithRefresh])),
     JsonFile(MarshalStore([n \in {ProviderName} |-> StoredExpiredNoRefresh])),
     JsonFile(MarshalStore([n \in {ProviderName} |-> StoredValid]))}

\* The store files a provider used by one caller may start with: also an
\* expired entry with a refresh_token whose client_id was never stored.
SingleCallerInitFiles ==
    ProviderInitFiles \cup
    {JsonFile(MarshalStore([n \in {ProviderName} |-> StoredExpiredNoClient]))}

\* NewOAuthTokenProvider: the config passed Validate, so it has a client_id
\* or a registration endpoint.
ProviderInitConfigs == {Config("cid", "", ""), Config("", "", "https://as/register")}

ProviderInit ==
    /\ now = 2
    /\ ptoken = NilToken
    /\ pconfig \in ProviderInitConfigs
    /\ authFunc = FALSE
    /\ pmu = "none"
    /\ rtmu = "none"
    /\ issued = 0
    /\ writable \in BOOLEAN
    /\ cl = [c \in Callers |-> IdleCall]
    /\ file \in ProviderInitFiles

ProviderIdle ==
    /\ now = 2
    /\ ptoken = NilToken
    /\ pconfig = Config("cid", "", "")
    /\ authFunc = FALSE
    /\ pmu = "none"
    /\ rtmu = "none"
    /\ issued = 0
    /\ writable = TRUE
    /\ cl = [c \in Callers |-> IdleCall]

\* The tokens the provider or a call in progress holds, and the stored one.
TokensHeld ==
    {x.tok : x \in {y \in {ptoken} \cup {cl[c].tok : c \in Callers}
                                   \cup {cl[c].ntok : c \in Callers} : y.set}}
    \cup (LET l == Load(file, ProviderName) IN
          IF l.found THEN {dataToToken(l.entry)} ELSE {})

\* Time passes, as long as that can make a token expire.
Tick ==
    /\ now < MaxTime
    /\ \E t \in TokensHeld : t.ExpiresAt > now
    /\ now' = now + 1
    /\ UNCHANGED <<file, ptoken, pconfig, authFunc, pmu, rtmu, issued, cl>>
    /\ UNCHANGED <<writable, notProvider>>

\* SetAuthFunc: lock, p.authFunc = fn, unlock.  buildHTTPTransport installs
\* the function before it hands the provider to the round tripper, that is
\* before any call.
SetAuthFunc ==
    /\ ProviderMutexFree(pmu)
    /\ \A c \in Callers : cl[c].pc = "idle"
    /\ ~authFunc
    /\ authFunc' = TRUE
    /\ UNCHANGED <<file, now, ptoken, pconfig, pmu, rtmu, issued, cl>>
    /\ UNCHANGED <<writable, notProvider>>

\* A caller calls provider.EnsureToken, provider.RefreshToken or
\* roundTripper.RoundTrip; each caller makes one call, at any time.  The
\* callers are interchangeable: "c1" names the one that calls first.
Call(c) ==
    /\ cl[c].pc = "idle"
    /\ c = "c1" \/ cl["c1"].pc # "idle"
    /\ \E o \in {"EnsureToken", "RefreshToken", "RoundTrip"} :
         cl' = [cl EXCEPT ![c] =
                  [IdleCall EXCEPT
                     !.op = o,
                     !.site = IF o = "RefreshToken" THEN "direct" ELSE "none",
                     !.pc = CASE o = "EnsureToken" -> "et_lock"
                              [] o = "RefreshToken" -> "rf_lock"
                              [] OTHER -> "rt_lock",
                     !.conc = \E d \in Callers \ {c} : cl[d].pc \notin {"idle", "ret"}]]
    /\ UNCHANGED <<file, now, ptoken, pconfig, authFunc, pmu, rtmu, issued>>
    /\ UNCHANGED <<writable, notProvider>>

\* RoundTrip: rt.mu.Lock(), then the call of EnsureToken.
RoundTripLock(c) ==
    /\ cl[c].pc = "rt_lock"
    /\ RoundTripperMutexFree(rtmu)
    /\ rtmu' = c
    /\ cl' = [cl EXCEPT ![c].pc = "et_lock"]
    /\ UNCHANGED <<file, now, ptoken, pconfig, authFunc, pmu, issued>>
    /\ UNCHANGED <<writable, notProvider>>

\* EnsureToken: p.mu.Lock()
EnsureTokenLock(c) ==
    /\ cl[c].pc = "et_lock"
    /\ ProviderMutexFree(pmu)
    /\ pmu' = c
    /\ cl' = [cl EXCEPT ![c].pc = "et_body"]
    /\ UNCHANGED <<file, now, ptoken, pconfig, authFunc, rtmu, issued>>
    /\ UNCHANGED <<writable, notProvider>>

\* EnsureToken's first test: p.token != nil && !p.token.IsExpired()
CacheNeverValid(t, time) == FALSE

CacheValid(t, time) == t.set /\ ~IsExpired(t.tok, time)

\* loadOrRefreshStoredToken's test for a refresh: stored.RefreshToken != ""
HasRefreshTokenAlways(t) == TRUE

HasRefreshToken(t) == t.RefreshToken # ""

\* EnsureToken: the cached token, then loadOrRefreshStoredToken up to its
\* refresh.  Returns the cached or the stored token when that is valid.
EnsureTokenBody(c) ==
    /\ cl[c].pc = "et_body"
    /\ LET l == Load(file, ProviderName)
           stored == dataToToken(l.entry)
           r0 == [cl[c] EXCEPT !.cache0 = ptoken, !.load0 = l, !.at0 = now]
           r1 == [r0 EXCEPT !.reads = TRUE]
           done(r, t) ==
              /\ cl' = [cl EXCEPT ![c] = [r EXCEPT !.tok = Some(t), !.retAt = now,
                                                   !.pc = AfterEnsure(cl[c])]]
              /\ pmu' = "none"
           goon(pos) ==
              /\ cl' = [cl EXCEPT ![c] = [r1 EXCEPT !.pc = pos, !.miss = TRUE,
                                                    !.rtk = IF pos = "et_refresh"
                                                            THEN stored.RefreshToken ELSE @]]
              /\ UNCHANGED <<ptoken, pmu>>
       IN
       IF CacheValid(ptoken, now)
       THEN done(r0, ptoken.tok) /\ UNCHANGED ptoken
       ELSE IF l.err # "" \/ ~l.found \/ l.entry.access_token = ""
       THEN goon("et_auth")
       ELSE IF ~IsExpired(stored, now)
       THEN done(r1, stored) /\ ptoken' = Some(stored)
       ELSE IF ~HasRefreshToken(stored)
       THEN goon("et_auth")
       ELSE goon("et_refresh")
    /\ UNCHANGED <<file, now, pconfig, authFunc, rtmu, issued>>
    /\ UNCHANGED <<writable, notProvider>>

\* loadOrRefreshStoredToken: ensureClientRegistration, the refresh request,
\* p.token = newToken, saveToken; EnsureToken returns the new token.  Every
\* failure falls through to the authorization.
EnsureTokenRefresh(c) ==
    /\ cl[c].pc = "et_refresh"
    /\ \E reg \in ensureClientRegistration(pconfig, file, writable) :
         LET clr == [cl EXCEPT ![c] = Registered(cl[c], reg)] IN
         /\ pconfig' = reg.cfg
         /\ IF reg.err # ""
            THEN /\ cl' = [clr EXCEPT ![c].pc = "et_auth"]
                 /\ file' = reg.file
                 /\ UNCHANGED <<ptoken, pmu, issued>>
            ELSE \E resp \in doTokenRequest(issued, now), io \in {WriteOutcome(writable)} :
                   IF ~resp.ok
                   THEN /\ cl' = [clr EXCEPT ![c].pc = "et_auth", ![c].nRef = @ + 1,
                                            ![c].grant = cl[c].rtk,
                                             ![c].cid = reg.cfg.ClientID]
                        /\ file' = reg.file
                        /\ UNCHANGED <<ptoken, pmu, issued>>
                   ELSE /\ ptoken' = Some(resp.tok)
                        /\ issued' = issued + 1
                        /\ file' = saveToken(reg.file, resp.tok, io).file
                        /\ cl' = Hand(c, resp.tok,
                                   [clr EXCEPT ![c].tok = Some(resp.tok), ![c].retAt = now,
                                              ![c].err = SaveTokenError(
                                                  saveToken(reg.file, resp.tok, io).err),
                                              ![c].nRef = @ + 1, ![c].nRefOk = @ + 1,
                                              ![c].grant = cl[c].rtk,
                                              ![c].cid = reg.cfg.ClientID,
                                              ![c].pc = AfterEnsure(cl[c])])
                        /\ pmu' = "none"
    /\ UNCHANGED <<now, authFunc, rtmu>>
    /\ UNCHANGED <<writable, notProvider>>

\* EnsureToken's test p.authFunc == nil
AuthFuncNilNever(fn) == FALSE

AuthFuncNil(fn) == ~fn

\* EnsureToken: no usable token.  Fails without an authFunc or a client_id;
\* otherwise calls authFunc, caches and saves its token and returns it.
EnsureTokenAuthorize(c) ==
    /\ cl[c].pc = "et_auth"
    /\ LET fail(calls, e) ==
              /\ cl' = [calls EXCEPT ![c].err = e, ![c].retAt = now,
                                  ![c].pc = AfterEnsure(cl[c])]
              /\ pmu' = "none"
       IN
       IF AuthFuncNil(authFunc)
       THEN fail(cl, "no valid token available") /\ UNCHANGED <<file, ptoken, pconfig, issued>>
       ELSE \E reg \in ensureClientRegistration(pconfig, file, writable) :
         LET clr == [cl EXCEPT ![c] = Registered(cl[c], reg)] IN
         /\ pconfig' = reg.cfg
         /\ IF reg.err # ""
            THEN fail(clr, reg.err) /\ file' = reg.file /\ UNCHANGED <<ptoken, issued>>
            ELSE \E resp \in AuthFuncOutcomes(issued, now), io \in {WriteOutcome(writable)} :
                   IF ~resp.ok
                   THEN /\ cl' = [clr EXCEPT ![c].err = "authorization failed",
                                            ![c].cid = reg.cfg.ClientID,
                                            ![c].retAt = now, ![c].nAuth = @ + 1,
                                            ![c].pc = AfterEnsure(cl[c])]
                        /\ pmu' = "none"
                        /\ file' = reg.file
                        /\ UNCHANGED <<ptoken, issued>>
                   ELSE /\ ptoken' = Some(resp.tok)
                        /\ issued' = issued + 1
                        /\ file' = saveToken(reg.file, resp.tok, io).file
                        /\ cl' = Hand(c, resp.tok,
                                   [clr EXCEPT ![c].tok = Some(resp.tok), ![c].retAt = now,
                                               ![c].err = SaveTokenError(
                                                   saveToken(reg.file, resp.tok, io).err),
                                               ![c].nAuth = @ + 1,
                                               ![c].cid = reg.cfg.ClientID,
                                              ![c].pc = AfterEnsure(cl[c])])
                        /\ pmu' = "none"
    /\ UNCHANGED <<now, authFunc, rtmu>>
    /\ UNCHANGED <<writable, notProvider>>

\* RefreshToken: p.mu.Lock()
RefreshTokenLock(c) ==
    /\ cl[c].pc = "rf_lock"
    /\ ProviderMutexFree(pmu)
    /\ pmu' = c
    /\ cl' = [cl EXCEPT ![c].pc = "rf_body"]
    /\ UNCHANGED <<file, now, ptoken, pconfig, authFunc, rtmu, issued>>
    /\ UNCHANGED <<writable, notProvider>>

\* RefreshToken: ensureClientRegistration, the refresh token of the cache or
\* of the store, the refresh request, p.token = newToken, saveToken.
RefreshTokenBody(c) ==
    /\ cl[c].pc = "rf_body"
    /\ LET r == cl[c]
           count(x) == IF r.site = "pre" THEN x + 1 ELSE x
           fail(calls, e, n) ==
              /\ cl' = [calls EXCEPT ![c].err = e, ![c].nRef = n,
                                  ![c].pc = AfterRefresh(r, TRUE)]
              /\ pmu' = "none"
       IN
       \E reg \in ensureClientRegistration(pconfig, file, writable) :
         LET clr == [cl EXCEPT ![c] = Registered(cl[c], reg)] IN
         /\ pconfig' = reg.cfg
         /\ IF reg.err # ""
            THEN /\ fail(clr, "failed to ensure client registration", r.nRef)
                 /\ file' = reg.file
                 /\ UNCHANGED <<ptoken, issued>>
            ELSE LET refreshToken == RefreshTokenOf(ptoken, reg.file)
                 IN
                 IF refreshToken = ""
                 THEN /\ fail(clr, "no refresh token available", r.nRef)
                      /\ file' = reg.file
                      /\ UNCHANGED <<ptoken, issued>>
                 ELSE \E resp \in doTokenRequest(issued, now), io \in {WriteOutcome(writable)} :
                        IF ~resp.ok
                        THEN /\ cl' = [clr EXCEPT ![c].err = "token request failed",
                                                  ![c].cid = reg.cfg.ClientID,
                                                 ![c].nRef = count(@),
                                                 ![c].grant = refreshToken,
                                                 ![c].pc = AfterRefresh(r, TRUE)]
                             /\ pmu' = "none"
                             /\ file' = reg.file
                             /\ UNCHANGED <<ptoken, issued>>
                        ELSE /\ ptoken' = Some(resp.tok)
                             /\ issued' = issued + 1
                             /\ file' = saveToken(reg.file, resp.tok, io).file
                             /\ cl' = Hand(c, resp.tok,
                                        [clr EXCEPT ![c].ntok = Some(resp.tok),
                                                    ![c].err = SaveTokenError(
                                                        saveToken(reg.file, resp.tok, io).err),
                                                    ![c].cid = reg.cfg.ClientID,
                                                   ![c].nRef = count(@),
                                                   ![c].nRefOk = count(@),
                                                   ![c].grant = refreshToken,
                                                   ![c].pc = AfterRefresh(r, FALSE)])
                             /\ pmu' = "none"
    /\ UNCHANGED <<now, authFunc, rtmu>>
    /\ UNCHANGED <<writable, notProvider>>

\* RoundTrip after EnsureToken: fail fast on its error (the deferred
\* rt.mu.Unlock() runs); refresh first when the token reports expired;
\* otherwise go on to send.
RoundTripChecked(c) ==
    /\ cl[c].pc = "rt_checked"
    /\ IF cl[c].err # ""
       THEN /\ cl' = [cl EXCEPT ![c].pc = "ret", ![c].wrap = "failed to get OAuth token"]
            /\ rtmu' = "none"
       ELSE IF IsExpired(cl[c].tok.tok, now)
       THEN cl' = [cl EXCEPT ![c].pc = "rf_lock", ![c].site = "pre"] /\ UNCHANGED rtmu
       ELSE cl' = [cl EXCEPT ![c].pc = "rt_send"] /\ UNCHANGED rtmu
    /\ UNCHANGED <<file, now, ptoken, pconfig, authFunc, pmu, issued>>
    /\ UNCHANGED <<writable, notProvider>>

\* The bearer of the first request: token.AccessToken, where token is
\* EnsureToken's result or, after the refresh before sending, newToken.
FirstBearerBeforeRefresh(r) == r.tok.tok.AccessToken

FirstBearer(r) == IF r.site = "pre" THEN r.ntok.tok.AccessToken ELSE r.tok.tok.AccessToken

\* RoundTrip: clone the request, set the bearer, rt.base.RoundTrip(req2).  A
\* transport error and every status but 401 end the RoundTrip (the deferred
\* rt.mu.Unlock() runs); a 401 leads to the forced RefreshToken.
RoundTripSend(c) ==
    /\ cl[c].pc = "rt_send"
    /\ \E st \in TransportOutcomes :
         /\ cl' = [cl EXCEPT ![c].sends = @ + 1,
                          ![c].bearer1 = FirstBearer(cl[c]),
                          ![c].resp1 = st,
                          ![c].ret = IF st = "200" THEN st ELSE "",
                          ![c].err = IF st = "err" THEN "transport error" ELSE "",
                          ![c].forced = IF st = "401" THEN @ + 1 ELSE @,
                          ![c].site = IF st = "401" THEN "forced" ELSE @,
                          ![c].pc = IF st = "401" THEN "rf_lock" ELSE "ret"]
         /\ rtmu' = IF st = "401" THEN rtmu ELSE "none"
    /\ UNCHANGED <<file, now, ptoken, pconfig, authFunc, pmu, issued>>
    /\ UNCHANGED <<writable, notProvider>>

\* The bearer of the resend: newToken.AccessToken of the forced refresh.
ResendBearerStale(r) == r.bearer1

ResendBearer(r) == r.ntok.tok.AccessToken

\* What follows the resend answered st: RoundTrip returns, whatever st is.
AfterResendRetries(st) == IF st = "401" THEN "rf_lock" ELSE "ret"

AfterResend(st) == "ret"

\* RoundTrip after the forced refresh: clone the request again, set the new
\* bearer, return rt.base.RoundTrip(req3) whatever it is (the deferred
\* rt.mu.Unlock() runs).
RoundTripResend(c) ==
    /\ cl[c].pc = "rt_resend"
    /\ \E st \in TransportOutcomes :
         /\ cl' = [cl EXCEPT ![c].sends = @ + 1,
                          ![c].bearer2 = ResendBearer(cl[c]),
                          ![c].resp2 = st,
                          ![c].ret = IF st = "err" THEN "" ELSE st,
                          ![c].err = IF st = "err" THEN "transport error" ELSE "",
                          ![c].forced = IF AfterResend(st) = "ret" THEN @ ELSE @ + 1,
                          ![c].pc = AfterResend(st)]
         /\ rtmu' = IF AfterResend(st) = "ret" THEN "none" ELSE rtmu
    /\ UNCHANGED <<file, now, ptoken, pconfig, authFunc, pmu, issued>>
    /\ UNCHANGED <<writable, notProvider>>

\* RoundTrip returns the error of RefreshToken (the deferred rt.mu.Unlock()
\* runs).
RoundTripFail(c) ==
    /\ cl[c].pc = "rt_fail"
    /\ rtmu' = "none"
    /\ cl' = [cl EXCEPT ![c].pc = "ret",
                        ![c].wrap = IF cl[c].site = "forced"
                                    THEN "token refresh after 401 failed"
                                    ELSE "failed to refresh OAuth token"]
    /\ UNCHANGED <<file, now, ptoken, pconfig, authFunc, pmu, issued>>
    /\ UNCHANGED <<writable, notProvider>>

(***************************************************************************)
(* authorizeURL (part_004)                                                 *)
(***************************************************************************)

\* A URL as url.Parse yields it: what precedes the query, and the query as
\* the sequence of its key=value pairs.  Parses is false for a string
\* url.Parse rejects.
URL(base, rawQuery) == [Parses |-> TRUE, Base |-> base, RawQuery |-> rawQuery]
BadURL == [Parses |-> FALSE, Base |-> "", RawQuery |-> <<>>]

\* The keys that occur in a query, in the order Values.Encode writes them
\* (sorted by key).
SortedKeys ==
    <<"audience", "client_id", "code_challenge", "code_challenge_method",
      "redirect_uri", "response_type", "scope", "state">>

\* The values of key k in the pair sequence raw, in order.
ValuesOf(raw, k) ==
    LET F[i \in 0..Len(raw)] ==
          IF i = 0 THEN <<>>
          ELSE IF raw[i][1] = k THEN Append(F[i - 1], raw[i][2]) ELSE F[i - 1]
    IN F[Len(raw)]

\* u.Query(): url.Values, a map from each key of the query to its values.
QueryDiscarded(u) == [k \in {} |-> <<>>]

Query(u) ==
    [k \in {u.RawQuery[i][1] : i \in DOMAIN u.RawQuery} |-> ValuesOf(u.RawQuery, k)]

\* Values.Set: the key gets the one value, replacing the values it had.
QuerySet(q, k, v) == [x \in DOMAIN q \cup {k} |-> IF x = k THEN <<v>> ELSE q[x]]

\* Values.Encode: the pairs key by key in sorted order, the values of one key
\* in their order.
Encode(q) ==
    LET pairs(k) == IF k \in DOMAIN q THEN [i \in DOMAIN q[k] |-> <<k, q[k][i]>>] ELSE <<>>
        F[i \in 0..Len(SortedKeys)] ==
          IF i = 0 THEN <<>> ELSE F[i - 1] \o pairs(SortedKeys[i])
    IN F[Len(SortedKeys)]

\* strings.Join(elems, sep)
Join(elems, sep) ==
    LET F[i \in 0..Len(elems)] ==
          IF i = 0 THEN ""
          ELSE IF i = 1 THEN elems[1]
          ELSE F[i - 1] \o sep \o elems[i]
    IN F[Len(elems)]

NoURL == URL("", <<>>)

\* authorizeURL(cfg, state, challenge): [err, url]
authorizeURL(cfg, state, challenge) ==
    IF ~cfg.AuthURL.Parses
    THEN [err |-> "invalid OAuth authorization URL", url |-> NoURL]
    ELSE
      LET u == cfg.AuthURL
          q0 == Query(u)
          q1 == QuerySet(q0, "response_type", "code")
          q2 == QuerySet(q1, "client_id", cfg.ClientID)
          q3 == QuerySet(q2, "redirect_uri", cfg.RedirectURI)
          q4 == QuerySet(q3, "state", state)
          q5 == IF Len(cfg.Scopes) > 0
                THEN QuerySet(q4, "scope", Join(cfg.Scopes, " "))
                ELSE q4
          q6 == QuerySet(q5, "code_challenge", challenge)
          q7 == QuerySet(q6, "code_challenge_method", "S256")
      IN [err |-> "", url |-> URL(u.Base, Encode(q7))]

\* The inputs authorizeURL is called with.
AuthorizeEndpoint == "https://as/authorize"
DefaultRedirectURI == "http://localhost:19876/callback"
AuthURLs ==
    {URL(AuthorizeEndpoint, <<>>),
     URL(AuthorizeEndpoint, << <<"audience", "api">> >>),
     URL(AuthorizeEndpoint, << <<"scope", "legacy">> >>),
     URL(AuthorizeEndpoint,
         << <<"client_id", "old">>, <<"audience", "api">>, <<"audience", "v2">> >>),
     BadURL}
ScopeLists == {<<>>, <<"read">>, <<"read", "write">>}
AuthorizeConfigs ==
    {[ClientID |-> cid, AuthURL |-> u, Scopes |-> sc, RedirectURI |-> DefaultRedirectURI] :
        cid \in {"cid", "rid"}, u \in AuthURLs, sc \in ScopeLists}
AuthorizeStates == {"s1", "s2"}
AuthorizeChallenges == {"ch1", "ch2"}

NotCalled == [called |-> FALSE, err |-> "", url |-> NoURL]

AuthorizeInit ==
    /\ aCfg \in AuthorizeConfigs
    /\ aState \in AuthorizeStates
    /\ aChallenge \in AuthorizeChallenges
    /\ aResult = NotCalled

\* authorizeURL is not called (the value of its variables in the
\* specifications of the other components).
AuthorizeIdle ==
    /\ aCfg = [ClientID |-> "cid", AuthURL |-> URL(AuthorizeEndpoint, <<>>),
               Scopes |-> <<>>, RedirectURI |-> DefaultRedirectURI]
    /\ aState = "s1"
    /\ aChallenge = "ch1"
    /\ aResult = NotCalled

\* StartAuthFlow calls authorizeURL(cfg, state, challenge).
AuthorizeURLCall ==
    /\ ~aResult.called
    /\ LET r == authorizeURL(aCfg, aState, aChallenge)
       IN aResult' = [called |-> TRUE, err |-> r.err, url |-> r.url]
    /\ UNCHANGED <<aCfg, aState, aChallenge>>
    /\ UNCHANGED notAuthorize

\* The next flow: another config, state and challenge.
NextFlow ==
    /\ aResult.called
    /\ aCfg' \in AuthorizeConfigs
    /\ aState' \in AuthorizeStates
    /\ aChallenge' \in AuthorizeChallenges
    /\ aResult' = NotCalled
    /\ UNCHANGED notAuthorize

(***************************************************************************)
(* Config.Validate (part_004)                                              *)
(***************************************************************************)

\* The number of times Validate is called on one config.
MaxValidates == 2

\* url.Parse on the URL strings configs hold: whether it succeeds, and the
\* Scheme and Hostname() of the result.
Parsed(scheme, hostname) == [ok |-> TRUE, Scheme |-> scheme, Hostname |-> hostname]
ParseURL(s) ==
    CASE s = "" -> Parsed("", "")
      [] s = "http://localhost:19876/callback" -> Parsed("http", "localhost")
      [] s = "http://localhost:9000/oauth/cb" -> Parsed("http", "localhost")
      [] s = "http://127.0.0.1:8080/callback" -> Parsed("http", "127.0.0.1")
      [] s = "http://localhost/callback" -> Parsed("http", "localhost")
      [] s = "https://localhost:8080/callback" -> Parsed("https", "localhost")
      [] s = "http://example.com:8080/callback" -> Parsed("http", "example.com")
      [] s = "http://[::1]:8080/callback" -> Parsed("http", "::1")
      [] s = "https://auth.example.com/authorize" -> Parsed("https", "auth.example.com")
      [] s = "https://auth.example.com/token" -> Parsed("https", "auth.example.com")
      [] s = "https://auth.example.com/register" -> Parsed("https", "auth.example.com")
      [] s = "https://login.example.org/authorize" -> Parsed("https", "login.example.org")
      [] s = "https://login.example.org/token" -> Parsed("https", "login.example.org")
      [] s = "https://example.com/mcp" -> Parsed("https", "example.com")
      [] s = "http://example.com/mcp" -> Parsed("http", "example.com")
      [] s = "https://example.com" -> Parsed("https", "example.com")
      [] s = "https://example.com/tenant1" -> Parsed("https", "example.com")
      [] s = "http://example.com" -> Parsed("http", "example.com")
      [] s = "https://evil.com" -> Parsed("https", "evil.com")
      [] s = "https://example.com.evil.com" -> Parsed("https", "example.com.evil.com")
      [] s = "https://example.com@evil.com" -> Parsed("https", "evil.com")
      [] OTHER -> [ok |-> FALSE, Scheme |-> "", Hostname |-> ""]

\* validateRedirectURI's test of the host.
LoopbackHostOrIPv6(host) == host \in {"localhost", "127.0.0.1", "::1"}

LoopbackHost(host) == host = "localhost" \/ host = "127.0.0.1"

\* validateRedirectURI: the error it returns, "" for none.
validateRedirectURI(uri) ==
    LET u == ParseURL(uri) IN
    IF ~u.ok THEN "invalid redirect_uri"
    ELSE IF u.Scheme # "http" THEN "redirect_uri must use http scheme"
    ELSE IF ~LoopbackHost(u.Hostname) THEN "redirect_uri must be localhost or 127.0.0.1"
    ELSE ""

\* The config Validate leaves in its receiver: the redirect URI defaulted.
NormalizedDropsRegistration(c) ==
    [c EXCEPT !.RedirectURI = IF @ = "" THEN DefaultRedirectURI ELSE @,
              !.RegistrationEndpoint = ""]

Normalized(c) == [c EXCEPT !.RedirectURI = IF @ = "" THEN DefaultRedirectURI ELSE @]

\* Config.Validate: [err, cfg], cfg being the receiver afterwards.
Validate(c) ==
    LET rerr == validateRedirectURI(Normalized(c).RedirectURI)
        err ==
          IF rerr # "" THEN rerr
          ELSE IF c.AuthURL # "" /\ ~ParseURL(c.AuthURL).ok THEN "invalid auth_url"
          ELSE IF c.TokenURL # "" /\ ~ParseURL(c.TokenURL).ok THEN "invalid token_url"
          ELSE IF c.RegistrationEndpoint # "" /\ ~ParseURL(c.RegistrationEndpoint).ok
          THEN "invalid registration_endpoint"
          ELSE IF c.ClientID = "" /\ c.RegistrationEndpoint = ""
          THEN "either client_id or registration_endpoint must be set"
          ELSE ""
    IN [err |-> err, cfg |-> Normalized(c)]

\* The configs Validate is called on.
InvalidURL == "://invalid"
RedirectURIs ==
    {"", "http://localhost:19876/callback", "http://localhost:9000/oauth/cb",
     "http://127.0.0.1:8080/callback", "https://localhost:8080/callback",
     "http://example.com:8080/callback", "http://[::1]:8080/callback", InvalidURL}
ValidateConfigs ==
    {[ClientID |-> cid, ClientSecret |-> "", AuthURL |-> au, TokenURL |-> tu,
      Scopes |-> <<>>, RedirectURI |-> ru, RegistrationEndpoint |-> re] :
        cid \in {"", "test-client"},
        au \in {"", "https://auth.example.com/authorize", InvalidURL},
        tu \in {"", "https://auth.example.com/token", InvalidURL},
        ru \in RedirectURIs,
        re \in {"", "https://auth.example.com/register", InvalidURL}}

ValidateInit ==
    /\ vCfg \in ValidateConfigs
    /\ vHist = <<>>

\* Validate is not called (the value of its variables in the specifications
\* of the other components).
ValidateIdle ==
    /\ vCfg = [ClientID |-> "test-client", ClientSecret |-> "", AuthURL |-> "",
               TokenURL |-> "", Scopes |-> <<>>, RedirectURI |-> "",
               RegistrationEndpoint |-> ""]
    /\ vHist = <<>>


\* c.Validate()
ValidateCall ==
    /\ Len(vHist) < MaxValidates
    /\ LET r == Validate(vCfg)
       IN /\ vCfg' = r.cfg
          /\ vHist' = Append(vHist, [err |-> r.err, before |-> vCfg, after |-> r.cfg])
    /\ UNCHANGED notValidate

\* Another config is built.
NextConfig ==
    /\ vHist # <<>>
    /\ vCfg' \in ValidateConfigs
    /\ vHist' = <<>>
    /\ UNCHANGED notValidate

(***************************************************************************)
(* DiscoverOAuth (part_006), resolveOAuthConfig, buildHTTPTransport        *)
(* (part_002)                                                              *)
(***************************************************************************)

StatusOK == 200
StatusNotFound == 404
StatusServerError == 500

\* The strings that follow "<scheme>://<host>" in the issuers of the
\* documents below.
IssuerSuffixes == {"", "/tenant1", ".evil.com", "@evil.com"}

\* strings.HasPrefix(s, prefix), for s among the issuers below.
HasPrefixOrNot(s, prefix) == TRUE

HasPrefix(s, prefix) == \E rest \in IssuerSuffixes : s = prefix \o rest

\* fmt.Sprintf("%s://%s", scheme, host)
ExpectedPrefix(scheme, host) == scheme \o "://" \o host

\* validateDiscoveryResponse: the error it returns, "" for none.
validateDiscoveryResponse(resp, scheme, host) ==
    IF resp.Issuer = "" THEN "missing required issuer field"
    ELSE IF resp.AuthorizationEndpoint = ""
    THEN "missing required authorization_endpoint field"
    ELSE IF resp.TokenEndpoint = "" THEN "missing required token_endpoint field"
    ELSE IF Len(resp.ResponseTypesSupported) = 0
    THEN "missing required response_types_supported field"
    ELSE IF ~HasPrefix(resp.Issuer, ExpectedPrefix(scheme, host))
    THEN "issuer does not match expected host"
    ELSE ""

\* The Config values of this section; NoConfig is the nil *Config.
NoConfig == [nil |-> TRUE]
OAuthConfig(cid, secret, au, tu, scopes, ru, re) ==
    [ClientID |-> cid, ClientSecret |-> secret, AuthURL |-> au, TokenURL |-> tu,
     Scopes |-> scopes, RedirectURI |-> ru, RegistrationEndpoint |-> re]

\* What the server answers to GET <scheme>://<host>/.well-known/...:
\* the request fails (net), or a response with a status, a body that can be
\* read or not, that is JSON or not, and the document it decodes to.
Issuers ==
    {"", "https://example.com", "https://example.com/tenant1", "http://example.com",
     "https://evil.com", "https://example.com.evil.com", "https://example.com@evil.com"}
DiscoveryDocuments ==
    [Issuer : Issuers,
     AuthorizationEndpoint : {"", "https://auth.example.com/authorize"},
     TokenEndpoint : {"", "https://auth.example.com/token"},
     RegistrationEndpoint : {"", "https://auth.example.com/register"},
     ScopesSupported : {<<>>, <<"mcp">>},
     ResponseTypesSupported : {<<>>, <<"code">>}]
NoDocument ==
    [Issuer |-> "", AuthorizationEndpoint |-> "", TokenEndpoint |-> "",
     RegistrationEndpoint |-> "", ScopesSupported |-> <<>>,
     ResponseTypesSupported |-> <<>>]
Response(net, status, readable, json, doc) ==
    [net |-> net, status |-> status, readable |-> readable, json |-> json, doc |-> doc]
DiscoveryResponses ==
    {Response(FALSE, 0, FALSE, FALSE, NoDocument)}
      \cup {Response(TRUE, st, FALSE, FALSE, NoDocument) :
              st \in {StatusOK, StatusNotFound, StatusServerError}}
      \cup {Response(TRUE, StatusOK, TRUE, FALSE, NoDocument)}
      \cup {Response(TRUE, StatusOK, TRUE, TRUE, d) : d \in DiscoveryDocuments}

\* DiscoverOAuth: [cfg, err]. parsed.Host is the Hostname of the table: the
\* server URLs below name no port.
DiscoveryResult(cfg, err) == [cfg |-> cfg, err |-> err]
DiscoverOAuth(serverURL, resp) ==
    LET parsed == ParseURL(serverURL) IN
    IF ~parsed.ok THEN DiscoveryResult(NoConfig, "invalid oauth server URL")
    ELSE IF ~resp.net THEN DiscoveryResult(NoConfig, "")
    ELSE IF resp.status = StatusNotFound THEN DiscoveryResult(NoConfig, "")
    ELSE IF resp.status # StatusOK THEN DiscoveryResult(NoConfig, "")
    ELSE IF ~resp.readable
    THEN DiscoveryResult(NoConfig, "failed to read discovery response")
    ELSE IF ~resp.json THEN DiscoveryResult(NoConfig, "")
    ELSE IF validateDiscoveryResponse(resp.doc, parsed.Scheme, parsed.Hostname) # ""
    THEN DiscoveryResult(NoConfig, "")
    ELSE DiscoveryResult(
           OAuthConfig("", "", resp.doc.AuthorizationEndpoint, resp.doc.TokenEndpoint,
                       resp.doc.ScopesSupported, "", resp.doc.RegistrationEndpoint), "")

\* The oauth block of an MCP server's config: each setting given or omitted.
OAuthSettings ==
    [Enabled : BOOLEAN,
     ClientID : {"", "my-client"},
     ClientSecret : {"", "my-secret"},
     AuthURL : {"", "https://login.example.org/authorize"},
     TokenURL : {"", "https://login.example.org/token"},
     Scopes : {<<>>, <<"read">>},
     RedirectURI : {"", "http://localhost:9000/oauth/cb"}]
ServerURLs == {"https://example.com/mcp", "http://example.com/mcp", InvalidURL}
MCPConfigs == [URL : ServerURLs, OAuth : OAuthSettings]

\* OAuthConfig.IsEnabled
IsEnabled(o) == o.Enabled

\* resolveOAuthConfig
resolveOAuthConfig(m, resp) ==
    IF m.OAuth.ClientID # ""
    THEN OAuthConfig(m.OAuth.ClientID, m.OAuth.ClientSecret, m.OAuth.AuthURL,
                     m.OAuth.TokenURL, m.OAuth.Scopes, m.OAuth.RedirectURI, "")
    ELSE LET d == DiscoverOAuth(m.URL, resp) IN
         IF d.err # "" \/ d.cfg = NoConfig THEN NoConfig ELSE d.cfg

\* buildHTTPTransport: whether the OAuth layer is stacked, and the config of
\* the provider it is built on.
Transport(oauth, cfg) == [built |-> TRUE, oauth |-> oauth, cfg |-> cfg]
buildHTTPTransport(m, resp) ==
    IF ~IsEnabled(m.OAuth) THEN Transport(FALSE, NoConfig)
    ELSE LET oauthCfg == resolveOAuthConfig(m, resp) IN
         IF oauthCfg = NoConfig THEN Transport(FALSE, NoConfig)
         ELSE IF oauthCfg.AuthURL = "" \/ oauthCfg.TokenURL = ""
         THEN Transport(FALSE, NoConfig)
         ELSE IF Validate(oauthCfg).err # "" THEN Transport(FALSE, NoConfig)
         ELSE Transport(TRUE, Validate(oauthCfg).cfg)

NotDiscovered == [called |-> FALSE, cfg |-> NoConfig, err |-> ""]
NotBuilt == [built |-> FALSE, oauth |-> FALSE, cfg |-> NoConfig]

DiscoveryInit ==
    /\ dSrv \in MCPConfigs
    /\ dResp \in DiscoveryResponses
    /\ dDisc = NotDiscovered
    /\ dTransport = NotBuilt

DiscoveryIdle ==
    /\ dSrv = [URL |-> "https://example.com/mcp",
               OAuth |-> [Enabled |-> FALSE, ClientID |-> "", ClientSecret |-> "",
                          AuthURL |-> "", TokenURL |-> "", Scopes |-> <<>>,
                          RedirectURI |-> ""]]
    /\ dResp = Response(FALSE, 0, FALSE, FALSE, NoDocument)
    /\ dDisc = NotDiscovered
    /\ dTransport = NotBuilt


\* DiscoverOAuth(ctx, serverURL)
DiscoverOAuthCall ==
    /\ ~dDisc.called
    /\ LET d == DiscoverOAuth(dSrv.URL, dResp)
       IN dDisc' = [called |-> TRUE, cfg |-> d.cfg, err |-> d.err]
    /\ UNCHANGED <<dSrv, dResp, dTransport>>
    /\ UNCHANGED notDiscovery

\* buildHTTPTransport(ctx, name, m, tokenStore)
BuildHTTPTransportCall ==
    /\ ~dTransport.built
    /\ dTransport' = buildHTTPTransport(dSrv, dResp)
    /\ UNCHANGED <<dSrv, dResp, dDisc>>
    /\ UNCHANGED notDiscovery

(***************************************************************************)
(* The token request of exchangeToken and RefreshToken (part_004)          *)
(***************************************************************************)

\* The statuses the token endpoint answers with.
TokenStatuses == {200, 201, 204, 400, 401, 500}

\* The JSON documents of its bodies, as json.Unmarshal decodes them into
\* tokenResp (a document without access_token decodes to the empty string).
TokenDocuments ==
    [AccessToken : {"", "at"}, RefreshToken : {"", "rt"}, ExpiresIn : {0, 1}]
NoTokenDocument == [AccessToken |-> "", RefreshToken |-> "", ExpiresIn |-> 0]
TokenResponses ==
    {Response(FALSE, 0, FALSE, FALSE, NoTokenDocument)}
      \cup {Response(TRUE, st, FALSE, FALSE, NoTokenDocument) : st \in TokenStatuses}
      \cup {Response(TRUE, st, TRUE, FALSE, NoTokenDocument) : st \in TokenStatuses}
      \cup {Response(TRUE, st, TRUE, TRUE, d) : st \in TokenStatuses, d \in TokenDocuments}

\* The test doTokenRequest makes of the status.
StatusAcceptedAny2xx(status) == status \in 200..299

StatusAccepted(status) == status = StatusOK

\* What doTokenRequest returns for a response read at `time`:
\* [tok, err, status, body], status and body being those the error carries.
TokenResult(tok, err, status, body) ==
    [tok |-> tok, err |-> err, status |-> status, body |-> body]
NoBody == [json |-> FALSE, doc |-> NoTokenDocument]
handleTokenResponse(resp, time) ==
    IF ~resp.net THEN TokenResult(NilToken, "token request failed", 0, NoBody)
    ELSE IF ~resp.readable
    THEN TokenResult(NilToken, "failed to read token response", 0, NoBody)
    ELSE IF ~StatusAccepted(resp.status)
    THEN TokenResult(NilToken, "token request failed: status, body", resp.status,
                     [json |-> resp.json, doc |-> resp.doc])
    ELSE IF ~resp.json
    THEN TokenResult(NilToken, "failed to parse token response", 0, NoBody)
    ELSE TokenResult(
           Some(SetExpiresAt(Token(resp.doc.AccessToken, resp.doc.RefreshToken,
                                   resp.doc.ExpiresIn, 0), time)),
           "", 0, NoBody)

Grants == {"authorization_code", "refresh_token"}
NotRequested ==
    [called |-> FALSE, tok |-> NilToken, err |-> "", status |-> 0, body |-> NoBody]

TokenRequestInit ==
    /\ tCall \in [grant : Grants, resp : TokenResponses, time : 0..MaxTime]
    /\ tOut = NotRequested

TokenRequestIdle ==
    /\ tCall = [grant |-> "refresh_token",
                resp |-> Response(FALSE, 0, FALSE, FALSE, NoTokenDocument), time |-> 0]
    /\ tOut = NotRequested

\* The request returns: doTokenRequest, from the two functions that end
\* in it.
TokenRequestReturns(grant) ==
    /\ tCall.grant = grant
    /\ ~tOut.called
    /\ LET r == handleTokenResponse(tCall.resp, tCall.time)
       IN tOut' = [called |-> TRUE, tok |-> r.tok, err |-> r.err,
                   status |-> r.status, body |-> r.body]
    /\ UNCHANGED tCall
    /\ UNCHANGED notTokenRequest

\* exchangeToken(ctx, cfg, code, verifier)
ExchangeTokenCall == TokenRequestReturns("authorization_code")

\* RefreshToken(ctx, cfg, refreshToken)
RefreshTokenCall == TokenRequestReturns("refresh_token")

(***************************************************************************)
(* Authorization flows of providers that may register dynamically          *)
(***************************************************************************)

\* The flows that run at the same time, each for a provider of its own.
MaxFlows == 2
Flows == 1..MaxFlows

\* u.Port() and u.Path of a validated redirect URI.
RedirectPort(uri) ==
    CASE uri = "http://localhost:19876/callback" -> "19876"
      [] uri = "http://localhost:9000/oauth/cb" -> "9000"
      [] uri = "http://127.0.0.1:8080/callback" -> "8080"
      [] uri = "http://localhost/callback" -> ""

RedirectPath(uri) ==
    CASE uri = "http://localhost:19876/callback" -> "/callback"
      [] uri = "http://localhost:9000/oauth/cb" -> "/oauth/cb"
      [] uri = "http://127.0.0.1:8080/callback" -> "/callback"
      [] uri = "http://localhost/callback" -> "/callback"

\* parseRedirectURI: port "" stands for 0 (not specified, random).
parseRedirectURI(redirectURI) ==
    [port |-> RedirectPort(redirectURI),
     path |-> IF RedirectPath(redirectURI) = "" THEN "/callback"
              ELSE RedirectPath(redirectURI)]

\* The ports the system hands to a listener that asks for port 0.
EphemeralPorts == {"49152", "49153"}

\* callbackServer.RedirectURI()
ServerRedirectURI(port, path) == "http://localhost:" \o port \o path

\* generatePKCE: the verifier is random, the challenge its SHA-256 digest
\* (base64url); the digest is kept symbolic and is injective.
Verifiers == {"v1", "v2"}
S256(verifier) == "S256(" \o verifier \o ")"

\* The form exchangeToken posts.
NoForm == [sent |-> FALSE, grant_type |-> "", code |-> "", redirect_uri |-> "",
           client_id |-> "", code_verifier |-> ""]
exchangeTokenForm(cfg, code, verifier) ==
    [sent |-> TRUE, grant_type |-> "authorization_code", code |-> code,
     redirect_uri |-> cfg.RedirectURI, client_id |-> cfg.ClientID,
     code_verifier |-> verifier]

\* The verifier StartAuthFlow passes to exchangeToken: its local variable.
VerifierOfFirstFlow(f) == fl[1].verifier

VerifierOf(f) == fl[f].verifier

\* The redirect URIs a validated config can hold.
ValidatedRedirectURIs ==
    {u \in (RedirectURIs \cup {"http://localhost/callback"}) \ {""} :
        validateRedirectURI(u) = ""}

FlowConfigs ==
    {[ClientID |-> cid, AuthURL |-> URL(AuthorizeEndpoint, <<>>), Scopes |-> <<>>,
      RedirectURI |-> ru, RegistrationEndpoint |-> re] :
        cid \in {"", "test-client"}, ru \in ValidatedRedirectURIs,
        re \in {"https://auth.example.com/register"}}

NewFlow(config) ==
    [pc |-> "new", config |-> config, reg |-> "", cfg |-> config, verifier |-> "",
     challenge |-> "", url |-> NoURL, form |-> NoForm, port |-> "", err |-> ""]

FlowsInit ==
    /\ fl \in [Flows -> {NewFlow(c) : c \in FlowConfigs}]
    /\ listening = {}

\* No flow runs (the value of the variables in the specifications of the
\* other components).
FlowsIdle ==
    /\ fl = [f \in Flows |->
               NewFlow([ClientID |-> "test-client", AuthURL |-> URL(AuthorizeEndpoint, <<>>),
                        Scopes |-> <<>>, RedirectURI |-> DefaultRedirectURI,
                        RegistrationEndpoint |-> ""])]
    /\ listening = {}

\* ensureClientRegistration of the flow's provider: a config with a
\* client_id registers nothing; otherwise RegisterClient posts the config's
\* redirect URI and the provider's config takes the client_id it is given.
\* The registration can fail.
RegisterClientStep(f) ==
    /\ fl[f].pc = "new"
    /\ \/ /\ fl[f].config.ClientID # ""
          /\ fl' = [fl EXCEPT ![f].pc = "ready"]
       \/ /\ fl[f].config.ClientID = ""
          /\ fl' = [fl EXCEPT ![f].pc = "ready",
                              ![f].reg = fl[f].config.RedirectURI,
                              ![f].config.ClientID = "registered-client"]
       \/ /\ fl[f].config.ClientID = ""
          /\ fl' = [fl EXCEPT ![f].pc = "returned",
                              ![f].reg = fl[f].config.RedirectURI,
                              ![f].err = "dynamic client registration failed"]
    /\ UNCHANGED listening
    /\ UNCHANGED notFlows

\* StartAuthFlow(ctx, cfg, opts) up to the wait for the callback: PKCE,
\* the callback server on the configured or a random port, the redirect
\* URI of the server, the authorization URL.
StartAuthFlowBegin(f) ==
    /\ fl[f].pc = "ready"
    /\ \E v \in Verifiers :
         LET pr == parseRedirectURI(fl[f].config.RedirectURI)
             ports == IF pr.port = "" THEN EphemeralPorts ELSE {pr.port}
         IN \/ /\ (ports \ listening) = {}
               /\ fl' = [fl EXCEPT ![f].pc = "returned", ![f].verifier = v,
                                   ![f].challenge = S256(v),
                                   ![f].cfg = fl[f].config,
                                   ![f].err = "failed to start callback server"]
               /\ UNCHANGED listening
            \/ \E port \in ports \ listening :
                 LET cfg == [fl[f].config EXCEPT
                               !.RedirectURI = ServerRedirectURI(port, pr.path)]
                     r == authorizeURL(cfg, FlowState, S256(v))
                 IN /\ fl' = [fl EXCEPT ![f].pc = "waiting", ![f].verifier = v,
                                        ![f].challenge = S256(v), ![f].cfg = cfg,
                                        ![f].url = r.url, ![f].port = port]
                    /\ listening' = listening \cup {port}
    /\ UNCHANGED notFlows

\* The callback arrives with a code and the matching state: exchangeToken,
\* then the deferred server.Close.
FlowExchange(f) ==
    /\ fl[f].pc = "waiting"
    /\ fl' = [fl EXCEPT ![f].pc = "returned",
                        ![f].form = exchangeTokenForm(fl[f].cfg, "code", VerifierOf(f))]
    /\ listening' = listening \ {fl[f].port}
    /\ UNCHANGED notFlows

\* The wait ends without a usable callback (timeout, error result, state
\* mismatch): StartAuthFlow returns the error, server.Close runs.
FlowFails(f) ==
    /\ fl[f].pc = "waiting"
    /\ fl' = [fl EXCEPT ![f].pc = "returned",
                        ![f].err = "failed waiting for OAuth callback"]
    /\ listening' = listening \ {fl[f].port}
    /\ UNCHANGED notFlows

(***************************************************************************)
(* Initialize and WaitForInit                                              *)
(***************************************************************************)

\* The calls of Initialize and of WaitForInit, and the MCP servers a config
\* names (each gets a goroutine under the call's WaitGroup).
MaxInitializers == 2
Initializers == 1..MaxInitializers
MaxWaiters == 2
Waiters == 1..MaxWaiters
MaxServers == 2

\* The package variables as declared: initDone = make(chan struct{}), a
\* zero initOnce; nothing has been called.
InitStart ==
    /\ initDone = "open"
    /\ initOnce = FALSE
    /\ ipc = [i \in Initializers |-> "idle"]
    /\ wg = [i \in Initializers |-> 0]
    /\ wpc = [w \in Waiters |-> "idle"]
    /\ wctx = [w \in Waiters |-> FALSE]
    /\ wret = [w \in Waiters |-> ""]

InitIdle == InitStart

\* Initialize up to wg.Wait: one goroutine per MCP server that is not
\* disabled.
InitializeCall(i) ==
    /\ ipc[i] = "idle"
    /\ \E n \in 0..MaxServers : wg' = [wg EXCEPT ![i] = n]
    /\ ipc' = [ipc EXCEPT ![i] = "wait"]
    /\ UNCHANGED <<initDone, initOnce, wpc, wctx, wret>>
    /\ UNCHANGED notInit

\* A session goroutine ends (connected, failed or recovered from a panic):
\* its deferred wg.Done.
SessionGoroutineDone(i) ==
    /\ ipc[i] = "wait"
    /\ wg[i] > 0
    /\ wg' = [wg EXCEPT ![i] = @ - 1]
    /\ UNCHANGED <<initDone, initOnce, ipc, wpc, wctx, wret>>
    /\ UNCHANGED notInit

\* wg.Wait returns; initOnce.Do(func() { close(initDone) }).
InitializeClose(i) ==
    /\ ipc[i] = "wait"
    /\ wg[i] = 0
    /\ initDone' = IF initOnce THEN initDone ELSE "closed"
    /\ initOnce' = TRUE
    /\ ipc' = [ipc EXCEPT ![i] = "returned"]
    /\ UNCHANGED <<wg, wpc, wctx, wret>>
    /\ UNCHANGED notInit

\* WaitForInit(ctx) reaches its select.
WaitForInitCall(w) ==
    /\ wpc[w] = "idle"
    /\ wpc' = [wpc EXCEPT ![w] = "waiting"]
    /\ UNCHANGED <<initDone, initOnce, ipc, wg, wctx, wret>>
    /\ UNCHANGED notInit

\* The caller's context is cancelled or times out.
ContextCancelled(w) ==
    /\ ~wctx[w]
    /\ wctx' = [wctx EXCEPT ![w] = TRUE]
    /\ UNCHANGED <<initDone, initOnce, ipc, wg, wpc, wret>>
    /\ UNCHANGED notInit

\* select: case <-initDone
WaitForInitDone(w) ==
    /\ wpc[w] = "waiting"
    /\ initDone = "closed"
    /\ wpc' = [wpc EXCEPT ![w] = "returned"]
    /\ wret' = [wret EXCEPT ![w] = "nil"]
    /\ UNCHANGED <<initDone, initOnce, ipc, wg, wctx>>
    /\ UNCHANGED notInit

\* select: case <-ctx.Done()
WaitForInitCancelled(w) ==
    /\ wpc[w] = "waiting"
    /\ wctx[w]
    /\ wpc' = [wpc EXCEPT ![w] = "returned"]
    /\ wret' = [wret EXCEPT ![w] = "ctx.Err()"]
    /\ UNCHANGED <<initDone, initOnce, ipc, wg, wctx>>
    /\ UNCHANGED notInit

(***************************************************************************)
(* Loop detection: hasRepeatedToolCalls                                    *)
(***************************************************************************)

\* The longest step list.
MaxSteps == 4

\* A tool call of a step paired with the output of its result.
ToolInteraction(name, input, output) ==
    [ToolName |-> name, Input |-> input, Output |-> output]

\* The content of a step, as the tool interactions in it: none (a text-only
\* step), or one.
StepContents ==
    {<<>>,
     <<ToolInteraction("read", "a.go", "content")>>,
     <<ToolInteraction("write", "b.go", "ok")>>}

\* getToolInteractionSignature: "" without tool calls, else the digest of
\* name, input and output of each call, each followed by a zero byte.  The
\* digest is kept symbolic: the string that is hashed.
getToolInteractionSignature(content) ==
    LET F[i \in 0..Len(content)] ==
          IF i = 0 THEN ""
          ELSE F[i - 1] \o content[i].ToolName \o "|" \o content[i].Input \o "|"
                        \o content[i].Output \o "|"
    IN IF Len(content) = 0 THEN "" ELSE "sha256(" \o F[Len(content)] \o ")"

\* counts[sig] > maxRepeats
ReachesMaxRepeats(count, maxRepeats) == count >= maxRepeats

ExceedsMaxRepeats(count, maxRepeats) == count > maxRepeats

\* hasRepeatedToolCalls(steps, windowSize, maxRepeats): the loop over the
\* window with its map of counts, returning at the first count above
\* maxRepeats.
hasRepeatedToolCalls(steps, windowSize, maxRepeats) ==
    IF Len(steps) < windowSize THEN FALSE
    ELSE
      LET window == SubSeq(steps, Len(steps) - windowSize + 1, Len(steps))
          sigs == {getToolInteractionSignature(window[i]) : i \in DOMAIN window}
          \* the state after i steps of the loop: [counts, ret]
          F[i \in 0..Len(window)] ==
            IF i = 0 THEN [counts |-> [g \in sigs |-> 0], ret |-> FALSE]
            ELSE
              LET prev == F[i - 1]
                  sig == getToolInteractionSignature(window[i])
              IN IF prev.ret \/ sig = "" THEN prev
                 ELSE [counts |-> [prev.counts EXCEPT ![sig] = @ + 1],
                       ret |-> ExceedsMaxRepeats(prev.counts[sig] + 1, maxRepeats)]
      IN F[Len(window)].ret

StepLists == UNION {[1..n -> StepContents] : n \in 0..MaxSteps}

NotReturned == [called |-> FALSE, result |-> FALSE]

LoopInit ==
    /\ lSteps \in StepLists
    /\ lWindow \in 0..(MaxSteps + 1)
    /\ lMax \in 0..MaxSteps
    /\ lOut = NotReturned

\* hasRepeatedToolCalls is not called (the value of its variables in the
\* specifications of the other components).
LoopIdle ==
    /\ lSteps = <<>>
    /\ lWindow = 0
    /\ lMax = 0
    /\ lOut = NotReturned

HasRepeatedToolCallsCall ==
    /\ ~lOut.called
    /\ lOut' = [called |-> TRUE, result |-> hasRepeatedToolCalls(lSteps, lWindow, lMax)]
    /\ UNCHANGED <<lSteps, lWindow, lMax>>
    /\ UNCHANGED notLoop

(***************************************************************************)
(* The three mutexes: oauthRoundTripper.mu, OAuthTokenProvider.mu and      *)
(* TokenStore.mu, with the store calls of the provider not atomic          *)
(***************************************************************************)

\* The goroutines that call the round tripper, the provider and the store.
MaxThreads == 2
Threads == 1..MaxThreads
NoThread == 0

\* The store calls of ensureClientRegistration: none with a client_id;
\* Load alone when it fails, finds credentials, or no registration
\* follows or it fails; Load and Save after a registration.
RegistrationCalls == {<<>>, <<"Load">>, <<"Load", "Save">>}

\* The store calls of saveToken: Load (its error ignored), then Save.
SaveTokenCalls == <<"Load", "Save">>

\* The store calls a provider method makes while it holds p.mu, along each
\* of its return paths (error returns included).
StoreCallsOf(method) ==
    CASE method = "SetAuthFunc" -> {<<>>}
      [] method = "EnsureToken" ->
           \* cache hit; Load by loadOrRefreshStoredToken
           {<<>>, <<"Load">>}
           \* the stored token is refreshed and saved
           \cup {<<"Load">> \o e \o SaveTokenCalls : e \in RegistrationCalls}
           \* no usable stored token (after a failed refresh or none),
           \* then the authorization: no auth_fn, registration or auth_fn
           \* fails, or the token is saved
           \cup {<<"Load">> \o r \o a :
                   r \in RegistrationCalls,
                   a \in RegistrationCalls
                         \cup {e \o SaveTokenCalls : e \in RegistrationCalls}}
      [] method = "RefreshToken" ->
           \* registration, the cached refresh token or Load, then an error
           \* return or saveToken
           {e \o l \o s : e \in RegistrationCalls, l \in {<<>>, <<"Load">>},
                          s \in {<<>>, SaveTokenCalls}}

\* The provider calls of RoundTrip along each of its return paths:
\* EnsureToken, RefreshToken before sending, RefreshToken after a 401.
ProviderCallsOfRoundTrip ==
    {<<"EnsureToken">>, <<"EnsureToken", "RefreshToken">>,
     <<"EnsureToken", "RefreshToken", "RefreshToken">>}

ProviderMethods == {"EnsureToken", "RefreshToken", "SetAuthFunc"}
StoreMethods == {"Load", "Save"}

IdleThread == [op |-> "", calls |-> <<>>, store |-> <<>>, pc |-> "idle", held |-> <<>>]

LocksInit ==
    /\ th = [t \in Threads |-> IdleThread]
    /\ lk = [rt |-> NoThread, p |-> NoThread,
             s |-> [writer |-> NoThread, readers |-> {}, pending |-> {}]]

LocksIdle == LocksInit

\* Mutex.Unlock by its holder (deferred: it runs on every return path).
UnlockedNever(owner, t) == owner

Unlocked(owner, t) == IF owner = t THEN NoThread ELSE owner

\* held without its last element
Released(held) == SubSeq(held, 1, Len(held) - 1)

\* A goroutine calls RoundTrip, a provider method or a store method.
Begin(t) ==
    /\ th[t].pc = "idle"
    /\ \/ \E calls \in ProviderCallsOfRoundTrip :
            th' = [th EXCEPT ![t] = [IdleThread EXCEPT !.op = "RoundTrip",
                                       !.calls = calls, !.pc = "rt_lock"]]
       \/ \E m \in ProviderMethods :
            th' = [th EXCEPT ![t] = [IdleThread EXCEPT !.op = m, !.calls = <<m>>,
                                       !.pc = "p_lock"]]
       \/ \E m \in StoreMethods :
            th' = [th EXCEPT ![t] = [IdleThread EXCEPT !.op = m, !.store = <<m>>,
                                       !.pc = "s_lock"]]
    /\ UNCHANGED lk
    /\ UNCHANGED notLocks

\* RoundTrip: rt.mu.Lock()
RoundTripMuLock(t) ==
    /\ th[t].pc = "rt_lock"
    /\ lk.rt = NoThread
    /\ lk' = [lk EXCEPT !.rt = t]
    /\ th' = [th EXCEPT ![t].pc = "rt_body", ![t].held = Append(@, "rt")]
    /\ UNCHANGED notLocks

\* RoundTrip between its provider calls: the next call, or the return.
RoundTripNext(t) ==
    /\ th[t].pc = "rt_body"
    /\ th' = [th EXCEPT ![t].pc = IF th[t].calls = <<>> THEN "rt_unlock" ELSE "p_lock"]
    /\ UNCHANGED lk
    /\ UNCHANGED notLocks

\* RoundTrip returns: the deferred rt.mu.Unlock()
RoundTripMuUnlock(t) ==
    /\ th[t].pc = "rt_unlock"
    /\ lk' = [lk EXCEPT !.rt = Unlocked(@, t)]
    /\ th' = [th EXCEPT ![t].pc = "done",
                        ![t].held = IF lk'.rt = t THEN @ ELSE Released(@)]
    /\ UNCHANGED notLocks

\* EnsureToken, RefreshToken, SetAuthFunc: p.mu.Lock(); the path the call
\* takes decides its store calls.
ProviderMuLock(t) ==
    /\ th[t].pc = "p_lock"
    /\ lk.p = NoThread
    /\ lk' = [lk EXCEPT !.p = t]
    /\ \E calls \in StoreCallsOf(Head(th[t].calls)) :
         th' = [th EXCEPT ![t].pc = "p_body", ![t].store = calls,
                           ![t].held = Append(@, "p")]
    /\ UNCHANGED notLocks

\* A provider method between its store calls: the next call, or the return.
ProviderNext(t) ==
    /\ th[t].pc = "p_body"
    /\ th' = [th EXCEPT ![t].pc = IF th[t].store = <<>> THEN "p_unlock" ELSE "s_lock"]
    /\ UNCHANGED lk
    /\ UNCHANGED notLocks

\* A provider method returns: the deferred p.mu.Unlock()
ProviderMuUnlock(t) ==
    /\ th[t].pc = "p_unlock"
    /\ lk' = [lk EXCEPT !.p = Unlocked(@, t)]
    /\ th' = [th EXCEPT ![t].pc = IF th[t].op = "RoundTrip" THEN "rt_body" ELSE "done",
                        ![t].calls = Tail(@),
                        ![t].held = IF lk'.p = t THEN @ ELSE Released(@)]
    /\ UNCHANGED notLocks

\* Load: s.mu.RLock(), which waits while a writer holds or awaits the lock.
StoreMuRLock(t) ==
    /\ th[t].pc = "s_lock"
    /\ Head(th[t].store) = "Load"
    /\ lk.s.writer = NoThread
    /\ lk.s.pending = {}
    /\ lk' = [lk EXCEPT !.s.readers = @ \cup {t}]
    /\ th' = [th EXCEPT ![t].pc = "s_held", ![t].held = Append(@, "s")]
    /\ UNCHANGED notLocks

\* Save: s.mu.Lock() announces the writer, which keeps new readers out.
StoreMuLockPending(t) ==
    /\ th[t].pc = "s_lock"
    /\ Head(th[t].store) = "Save"
    /\ lk' = [lk EXCEPT !.s.pending = @ \cup {t}]
    /\ th' = [th EXCEPT ![t].pc = "s_wait"]
    /\ UNCHANGED notLocks

\* Save: s.mu.Lock() returns once no reader and no writer holds the lock.
StoreMuLock(t) ==
    /\ th[t].pc = "s_wait"
    /\ lk.s.writer = NoThread
    /\ lk.s.readers = {}
    /\ lk' = [lk EXCEPT !.s.writer = t, !.s.pending = @ \ {t}]
    /\ th' = [th EXCEPT ![t].pc = "s_held", ![t].held = Append(@, "s")]
    /\ UNCHANGED notLocks

\* Load / Save return (with or without error): the deferred RUnlock / Unlock
StoreMuUnlock(t) ==
    /\ th[t].pc = "s_held"
    /\ lk' = [lk EXCEPT !.s.writer = Unlocked(@, t),
                        !.s.readers = IF Unlocked(t, t) = t THEN @ ELSE @ \ {t}]
    /\ th' = [th EXCEPT ![t].pc = IF th[t].op \in StoreMethods THEN "done" ELSE "p_body",
                        ![t].store = Tail(@),
                        ![t].held = IF lk'.s.writer = t \/ t \in lk'.s.readers
                                    THEN @ ELSE Released(@)]
    /\ UNCHANGED notLocks

\* The call has returned; the goroutine is free for its next call.
Finish(t) ==
    /\ th[t].pc = "done"
    /\ th' = [th EXCEPT ![t] = [IdleThread EXCEPT !.held = th[t].held]]
    /\ UNCHANGED lk
    /\ UNCHANGED notLocks

ExtIdle == FlowsIdle /\ InitIdle /\ LoopIdle /\ LocksIdle

ConfigIdle == ValidateIdle /\ DiscoveryIdle /\ TokenRequestIdle /\ ExtIdle

(***************************************************************************)
(* Specifications                                                          *)
(***************************************************************************)

NextStore ==
    \E p \in StoreClients :
        \/ SaveCall(p)
        \/ SaveLock(p)
        \/ SaveReadStep(p)
        \/ SaveWrite(p)
        \/ SaveUnlock(p)
        \/ LoadCall(p)
        \/ LoadLock(p)
        \/ LoadRead(p)
        \/ LoadUnlock(p)
        \/ StoreReturn(p)

InitStore ==
    StoreInit /\ CallbackIdle /\ ProviderIdle /\ FsIdle /\ AuthorizeIdle /\ ConfigIdle

SpecStore == InitStore /\ [][NextStore]_vars

NextCallback ==
    \/ \E h \in Handlers : HandleCallback(h)
    \/ ServeFails
    \/ ServeClosed
    \/ \E g \in Goroutines : OnceFast(g)
    \/ \E g \in Goroutines : OnceLock(g)
    \/ \E g \in Goroutines : OnceSlow(g)
    \/ \E g \in Goroutines : Respond(g)
    \/ WaitReceives
    \/ WaitCancelled
    \/ CheckResult
    \/ ExchangeToken

\* The store is not used by the callback server: it stays as constructed.
StoreIdle == StoreInit /\ file = Absent

InitCallback ==
    CallbackInit /\ StoreIdle /\ ProviderIdle /\ FsIdle /\ AuthorizeIdle /\ ConfigIdle

SpecCallback == InitCallback /\ [][NextCallback]_vars

\* The steps of the goroutine that runs StartAuthFlow.  It is scheduled, and
\* none of its waits is unbounded: waitForCallback selects on flowCtx, whose
\* timeout elapses, and exchangeToken runs under flowCtx and the HTTP
\* client's timeout.
FlowStep == WaitReceives \/ WaitCancelled \/ CheckResult \/ ExchangeToken

SpecCallbackFair == SpecCallback /\ WF_vars(FlowStep)

NextProvider ==
    \/ Tick
    \/ SetAuthFunc
    \/ \E c \in Callers : Call(c)
    \/ \E c \in Callers : RoundTripLock(c)
    \/ \E c \in Callers : EnsureTokenLock(c)
    \/ \E c \in Callers : EnsureTokenBody(c)
    \/ \E c \in Callers : EnsureTokenRefresh(c)
    \/ \E c \in Callers : EnsureTokenAuthorize(c)
    \/ \E c \in Callers : RefreshTokenLock(c)
    \/ \E c \in Callers : RefreshTokenBody(c)
    \/ \E c \in Callers : RoundTripChecked(c)
    \/ \E c \in Callers : RoundTripSend(c)
    \/ \E c \in Callers : RoundTripResend(c)
    \/ \E c \in Callers : RoundTripFail(c)

\* The store clients of SpecStore do not run; the provider is the only user
\* of the file.
StoreClientsIdle ==
    /\ smu = [writer |-> "none", readers |-> {}]
    /\ spc = [p \in StoreClients |-> "idle"]
    /\ sop = [p \in StoreClients |-> NoCall]
    /\ sloc = [p \in StoreClients |-> NoData]
    /\ sret = [p \in StoreClients |-> NoEntry]
    /\ spre = [p \in StoreClients |-> Absent]
    /\ lastSaved = [n \in Names |-> NoLast]

InitProvider ==
    ProviderInit /\ StoreClientsIdle /\ CallbackIdle /\ FsIdle /\ AuthorizeIdle /\ ConfigIdle

SpecProvider == InitProvider /\ [][NextProvider]_vars

\* One caller makes one call on the provider: no other call runs beside it.
FirstCaller == "c1"

NextSingleCaller ==
    \/ Tick
    \/ SetAuthFunc
    \/ Call(FirstCaller)
    \/ RoundTripLock(FirstCaller)
    \/ EnsureTokenLock(FirstCaller)
    \/ EnsureTokenBody(FirstCaller)
    \/ EnsureTokenRefresh(FirstCaller)
    \/ EnsureTokenAuthorize(FirstCaller)
    \/ RefreshTokenLock(FirstCaller)
    \/ RefreshTokenBody(FirstCaller)
    \/ RoundTripChecked(FirstCaller)
    \/ RoundTripSend(FirstCaller)
    \/ RoundTripResend(FirstCaller)
    \/ RoundTripFail(FirstCaller)

SingleCallerInit ==
    /\ now = 2
    /\ ptoken = NilToken
    /\ pconfig \in ProviderInitConfigs
    /\ authFunc = FALSE
    /\ pmu = "none"
    /\ rtmu = "none"
    /\ issued = 0
    /\ writable \in BOOLEAN
    /\ cl = [c \in Callers |-> IdleCall]
    /\ file \in SingleCallerInitFiles

InitSingleCaller ==
    SingleCallerInit /\ StoreClientsIdle /\ CallbackIdle /\ FsIdle /\ AuthorizeIdle /\ ConfigIdle

SpecSingleCaller == InitSingleCaller /\ [][NextSingleCaller]_vars

NextFs ==
    \/ SaveFile
    \/ ChmodFile
    \/ ChmodDir
    \/ RemoveFile

InitFs ==
    FsInit /\ StoreClientsIdle /\ CallbackIdle /\ ProviderIdle /\ AuthorizeIdle /\ ConfigIdle

SpecFs == InitFs /\ [][NextFs]_vars

NextAuthorize == AuthorizeURLCall \/ NextFlow

InitAuthorize ==
    AuthorizeInit /\ StoreIdle /\ CallbackIdle /\ ProviderIdle /\ FsIdle /\ ConfigIdle

SpecAuthorize == InitAuthorize /\ [][NextAuthorize]_vars

\* The other components while one function of the configuration is checked.
ComponentsIdle == StoreIdle /\ CallbackIdle /\ ProviderIdle /\ FsIdle /\ AuthorizeIdle

NextValidate == ValidateCall \/ NextConfig

InitValidate ==
    ValidateInit /\ ComponentsIdle /\ DiscoveryIdle /\ TokenRequestIdle /\ ExtIdle

SpecValidate == InitValidate /\ [][NextValidate]_vars

NextDiscovery == DiscoverOAuthCall \/ BuildHTTPTransportCall

InitDiscovery ==
    DiscoveryInit /\ ComponentsIdle /\ ValidateIdle /\ TokenRequestIdle /\ ExtIdle

SpecDiscovery == InitDiscovery /\ [][NextDiscovery]_vars

NextTokenRequest == ExchangeTokenCall \/ RefreshTokenCall

InitTokenRequest ==
    TokenRequestInit /\ ComponentsIdle /\ ValidateIdle /\ DiscoveryIdle /\ ExtIdle

SpecTokenRequest == InitTokenRequest /\ [][NextTokenRequest]_vars

NextFlows ==
    \E f \in Flows :
        \/ RegisterClientStep(f)
        \/ StartAuthFlowBegin(f)
        \/ FlowExchange(f)
        \/ FlowFails(f)

InitFlows ==
    /\ FlowsInit /\ ComponentsIdle /\ ValidateIdle /\ DiscoveryIdle /\ TokenRequestIdle
    /\ InitIdle /\ LoopIdle /\ LocksIdle

SpecFlows == InitFlows /\ [][NextFlows]_vars

NextInit ==
    \/ \E i \in Initializers : InitializeCall(i)
    \/ \E i \in Initializers : SessionGoroutineDone(i)
    \/ \E i \in Initializers : InitializeClose(i)
    \/ \E w \in Waiters : WaitForInitCall(w)
    \/ \E w \in Waiters : ContextCancelled(w)
    \/ \E w \in Waiters : WaitForInitDone(w)
    \/ \E w \in Waiters : WaitForInitCancelled(w)

InitInit ==
    /\ InitStart /\ ComponentsIdle /\ ValidateIdle /\ DiscoveryIdle /\ TokenRequestIdle
    /\ FlowsIdle /\ LoopIdle /\ LocksIdle

SpecInit == InitInit /\ [][NextInit]_vars

NextLoop == HasRepeatedToolCallsCall

InitLoop ==
    /\ LoopInit /\ ComponentsIdle /\ ValidateIdle /\ DiscoveryIdle /\ TokenRequestIdle
    /\ FlowsIdle /\ InitIdle /\ LocksIdle

SpecLoop == InitLoop /\ [][NextLoop]_vars

NextLocks ==
    \/ \E t \in Threads : Begin(t)
    \/ \E t \in Threads : RoundTripMuLock(t)
    \/ \E t \in Threads : RoundTripNext(t)
    \/ \E t \in Threads : RoundTripMuUnlock(t)
    \/ \E t \in Threads : ProviderMuLock(t)
    \/ \E t \in Threads : ProviderNext(t)
    \/ \E t \in Threads : ProviderMuUnlock(t)
    \/ \E t \in Threads : StoreMuRLock(t)
    \/ \E t \in Threads : StoreMuLockPending(t)
    \/ \E t \in Threads : StoreMuLock(t)
    \/ \E t \in Threads : StoreMuUnlock(t)
    \/ \E t \in Threads : Finish(t)

InitLocks ==
    /\ LocksInit /\ ComponentsIdle /\ ValidateIdle /\ DiscoveryIdle /\ TokenRequestIdle
    /\ FlowsIdle /\ InitIdle /\ LoopIdle

SpecLocks == InitLocks /\ [][NextLocks]_vars

(***************************************************************************)
(* TokenStore: properties                                                  *)
(***************************************************************************)

\* C7: a Save under one name never changes or drops the entry stored under
\* a different name: the step of Save that writes the file leaves what
\* Load returns for every other name as it was, and that is still the
\* entry last saved under that name, whatever other Saves ran in between
\* or concurrently.
C7_SaveKeepsOtherNames ==
    [][\A p \in StoreClients :
         (spc[p] = "save_write" /\ spc'[p] = "save_unlock") =>
            \A m \in Names \ {sop[p].name} :
               /\ Load(file', m) = Load(file, m)
               /\ lastSaved[m].has => Load(file', m) = Found(lastSaved[m].entry)]_vars

\* Both names hold an entry written by Save, the later Save ran under "b"
\* while the other client was inside a Save of its own, and "a" is intact.
C7_Witness ==
    /\ spc["s1"] = "save_unlock" /\ sop["s1"].name = "b" /\ sret["s1"].err = ""
    /\ spre["s1"].kind = "json" /\ "b" \notin DOMAIN spre["s1"].data
    /\ sop["s2"].kind = "Save" /\ spc["s2"] = "save_lock"
    /\ lastSaved["a"].has /\ Load(file, "a") = Found(lastSaved["a"].entry)
    /\ Load(file, "b") = Found(sop["s1"].entry)

\* C8: Save(name, e) followed by Load(name) returns an entry equal to e on
\* all six persisted fields, also when e has empty or zero fields: the value
\* a Load is about to return is the entry of the last successful Save under
\* its name.
C8_SaveLoadRoundTrip ==
    \A p \in StoreClients :
        (spc[p] = "load_unlock" /\ lastSaved[sop[p].name].has) =>
            /\ sret[p].err = "" /\ sret[p].found
            /\ \A f \in Fields : sret[p].entry[f] = lastSaved[sop[p].name].entry[f]

\* A Load returns the half-empty entry ETok that a Save stored under "b".
C8_Witness ==
    /\ spc["s1"] = "load_unlock" /\ sop["s1"].name = "b"
    /\ lastSaved["b"] = [has |-> TRUE, entry |-> ETok]
    /\ sret["s1"] = Found(ETok)

\* C9: when the store file exists but cannot be parsed, Save returns an
\* error and leaves the file content exactly as it was.
C9_SaveRefusesCorruptFile ==
    \A p \in StoreClients :
        (sop[p].kind = "Save" /\ spc[p] \in {"save_write", "save_unlock", "ret"}
           /\ spre[p].kind = "garbage") =>
            /\ spc[p] # "save_write"
            /\ sret[p].err = "parse"
            /\ file = spre[p]

\* A Save has returned its parse error and the corrupt file is untouched.
C9_Witness ==
    /\ spc["s1"] = "ret" /\ sop["s1"].kind = "Save"
    /\ spre["s1"] = Garbage /\ sret["s1"].err = "parse" /\ file = Garbage

\* C10: Load(name) returns (nil, no error) when the file does not exist and
\* when it parses but has no entry for name; it returns an error and no
\* entry when the file is unreadable or unparseable; Load never modifies the
\* file.
C10_LoadOutcomes ==
    \A p \in StoreClients :
        spc[p] = "load_unlock" =>
            /\ file = spre[p]
            /\ spre[p].kind = "absent" => sret[p] = NoEntry
            /\ (spre[p].kind = "json" /\ sop[p].name \notin DOMAIN spre[p].data)
                  => sret[p] = NoEntry
            /\ spre[p].kind \in {"unreadable", "garbage"}
                  => (~sret[p].found /\ sret[p].err # "")

\* A Load of an unreadable file is about to return its read error.
C10_Witness ==
    /\ spc["s1"] = "load_unlock" /\ spre["s1"] = Unreadable
    /\ sret["s1"] = LoadError("read") /\ file = Unreadable

\* C11: after any successful Save the file has mode 0600 and its directory
\* mode 0700, whatever they were before.
C11_ModesAfterSave ==
    saveDone = "ok" => fileMode = FilePerm /\ dirMode = DirPerm

(***************************************************************************)
(* callbackServer and StartAuthFlow: properties                            *)
(***************************************************************************)

\* C5: for one callback server at most one callbackResult is ever delivered
\* to the orchestrator, however many requests reach the callback path and
\* whether or not Serve fails; the delivered result is that of the first
\* event to reach sendResult, all later ones are discarded.
C5_DeliverOnce ==
    /\ Len(delivered) <= 1
    /\ Len(resultCh) <= 1
    /\ delivered # <<>> => delivered[1] = attempts[1]
    /\ received.got => (delivered # <<>> /\ received.result = attempts[1])

\* Three events reached sendResult (two requests and the Serve error), the
\* orchestrator received the first, and nothing else was delivered.
C5_Witness ==
    /\ Len(attempts) = 3
    /\ received.got /\ received.result = attempts[1]
    /\ attempts[2] # attempts[1]
    /\ Len(delivered) = 1 /\ resultCh = <<>>

\* C6: StartAuthFlow attempts the code-for-token exchange only when the
\* delivered result has an empty error and its state equals the state
\* generated for this flow; when the result carries an error or another
\* state, StartAuthFlow returns an error and nothing is sent to the token
\* endpoint.
C6_ExchangeOnlyOnMatchingState ==
    /\ (flow = "exchange" \/ exchangeLog # <<>>) =>
          /\ received.got
          /\ received.result.Error = ""
          /\ received.result.State = FlowState
          /\ Len(exchangeLog) <= 1
    /\ (flow = "returned" /\ received.got
          /\ (received.result.Error # "" \/ received.result.State # FlowState)) =>
          /\ flowRet.err # "" /\ ~flowRet.token
          /\ exchangeLog = <<>>

\* The callback carried a code and another flow's state: StartAuthFlow has
\* returned the mismatch error without an exchange.
C6_Witness ==
    /\ flow = "returned" /\ received.got
    /\ received.result = callbackResult("code1", "S2", "")
    /\ flowRet.err = "mismatch in OAuth state"
    /\ exchangeLog = <<>>

(***************************************************************************)
(* Properties of OAuthTokenProvider and oauthRoundTripper                  *)
(***************************************************************************)

\* The call of c has got EnsureToken's result, and nothing of it has been
\* overwritten yet.
EnsureReturned(c) ==
    \/ cl[c].op = "EnsureToken" /\ cl[c].pc = "ret"
    \/ cl[c].op = "RoundTrip" /\ cl[c].pc = "rt_checked"

\* C1: every token a successful EnsureToken returns is not expired at the
\* moment of return, whichever path produced it (cache, store, refresh,
\* auth_fn) and whatever expires_in / expires_at it was given.
C1_EnsureTokenReturnsUnexpired ==
    \A c \in Callers :
        EnsureReturned(c) /\ cl[c].err = ""
            => ~IsExpired(cl[c].tok.tok, cl[c].retAt)

\* A call that acquires a token (EnsureToken or RoundTrip) has returned.
Acquired(c) == cl[c].op \in {"EnsureToken", "RoundTrip"} /\ cl[c].pc = "ret"

\* C2 as stated: two concurrent calls that both find the token absent or
\* expired make, together, at most one auth_fn invocation and at most one
\* refresh request, and the one that was handed a token by the other returns
\* that token.
C2_AtMostOneAuthorizationAndRefresh ==
    \A a, b \in Callers :
        (a # b /\ cl[b].conc /\ Acquired(a) /\ Acquired(b) /\ cl[a].miss /\ cl[b].miss)
            => /\ cl[a].nAuth + cl[b].nAuth <= 1
               /\ cl[a].nRef + cl[b].nRef <= 1

\* C2 amended: EnsureToken and RefreshToken bodies of one provider never
\* overlap; and a call that, while it waited, was handed a token by another
\* call returns exactly that token, without any auth_fn invocation or refresh
\* request of its own, provided the token is unexpired when its EnsureToken
\* returns.
C2_SecondCallReusesLiveToken ==
    /\ Cardinality({c \in Callers : cl[c].pc \in InsideProvider}) <= 1
    /\ \A c \in Callers :
         (/\ EnsureReturned(c)
          /\ cl[c].handed.set
          /\ ~IsExpired(cl[c].handed.tok, cl[c].retAt))
            => /\ cl[c].err = ""
               /\ cl[c].tok = cl[c].handed
               /\ cl[c].nAuth = 0
               /\ cl[c].nRef = 0

\* Two concurrent calls, the first authorized, the second returned the token
\* it was handed.
C2_Witness ==
    \E a, b \in Callers :
        /\ a # b
        /\ cl[b].conc
        /\ EnsureReturned(b)
        /\ cl[b].handed.set
        /\ ~IsExpired(cl[b].handed.tok, cl[b].retAt)
        /\ cl[b].tok = cl[b].handed
        /\ cl[a].nAuth = 1
        /\ cl[a].tok = cl[b].tok

\* C3 as stated: a RoundTrip whose first request was answered 401 has made
\* exactly one forced RefreshToken and exactly one resend, and returns the
\* answer to the resend.
C3_A401CausesOneRefreshAndOneResend ==
    \A c \in Callers :
        (cl[c].op = "RoundTrip" /\ cl[c].pc = "ret" /\ cl[c].resp1 = "401")
            => /\ cl[c].forced = 1
               /\ cl[c].sends = 2
               /\ cl[c].resp2 # "err" => cl[c].ret = cl[c].resp2

\* C3 amended: a RoundTrip never invokes the transport more than twice nor
\* forces more than one refresh; after a 401 it has forced exactly one
\* RefreshToken and then either that refresh failed, and RoundTrip returns
\* its error without a resend, or it resent exactly once and returns the
\* outcome of the resend as it is, a second 401 included.
C3_OneForcedRefreshAtMostOneResend ==
    \A c \in Callers :
        /\ cl[c].sends <= 2
        /\ cl[c].forced <= 1
        /\ (cl[c].op = "RoundTrip" /\ cl[c].pc = "ret" /\ cl[c].resp1 = "401")
            => /\ cl[c].forced = 1
               /\ \/ /\ cl[c].wrap = "token refresh after 401 failed"
                     /\ cl[c].err # ""
                     /\ cl[c].sends = 1
                     /\ cl[c].ret = ""
                  \/ /\ cl[c].wrap = ""
                     /\ cl[c].sends = 2
                     /\ cl[c].resp2 \in {"200", "401"}
                     /\ cl[c].ret = cl[c].resp2
                     /\ cl[c].err = ""
                  \/ /\ cl[c].wrap = ""
                     /\ cl[c].sends = 2
                     /\ cl[c].resp2 = "err"
                     /\ cl[c].ret = ""
                     /\ cl[c].err = "transport error"

\* A RoundTrip answered 401 twice has returned the second 401.
C3_Witness ==
    \E c \in Callers :
        /\ cl[c].op = "RoundTrip"
        /\ cl[c].pc = "ret"
        /\ cl[c].resp1 = "401"
        /\ cl[c].resp2 = "401"
        /\ cl[c].ret = "401"
        /\ cl[c].sends = 2

\* C4: the resend after a 401 carries the access token the forced
\* RefreshToken returned, which is not the access token of the request that
\* was answered 401.
C4_ResendCarriesRefreshedToken ==
    \A c \in Callers :
        cl[c].sends = 2
            => /\ cl[c].ntok.set
               /\ cl[c].bearer2 = cl[c].ntok.tok.AccessToken
               /\ cl[c].bearer2 # cl[c].bearer1

\* A RoundTrip has resent after a 401.
C4_Witness ==
    \E c \in Callers :
        /\ cl[c].op = "RoundTrip"
        /\ cl[c].resp1 = "401"
        /\ cl[c].sends = 2
        /\ cl[c].bearer1 # ""
        /\ cl[c].bearer2 # ""

\* The stored entry holds a token that is valid at `time`.
StoredValidAt(l, time) ==
    /\ l.err = ""
    /\ l.found
    /\ l.entry.access_token # ""
    /\ ~IsExpired(dataToToken(l.entry), time)

\* C12: when the cached token was valid as EnsureToken began, EnsureToken
\* returns it and has read no store, sent no refresh request and invoked no
\* auth_fn, whatever the store holds; and an EnsureToken that invoked
\* auth_fn found no valid cached token, no valid stored token, and got no
\* token by refresh.
C12_CacheThenStoreThenAuthFunc ==
    \A c \in Callers :
        EnsureReturned(c) =>
            /\ (cl[c].cache0.set /\ ~IsExpired(cl[c].cache0.tok, cl[c].retAt))
                  => /\ cl[c].err = ""
                     /\ cl[c].tok = cl[c].cache0
                     /\ ~cl[c].reads
                     /\ cl[c].nRef = 0
                     /\ cl[c].nAuth = 0
            /\ cl[c].nAuth > 0
                  => /\ ~cl[c].cache0.set \/ IsExpired(cl[c].cache0.tok, cl[c].retAt)
                     /\ cl[c].reads
                     /\ ~StoredValidAt(cl[c].load0, cl[c].retAt)
                     /\ cl[c].nRefOk = 0

\* An EnsureToken returned the valid cached token while the store held a
\* different valid token.
C12_Witness ==
    \E c \in Callers :
        /\ EnsureReturned(c)
        /\ cl[c].cache0.set
        /\ cl[c].tok = cl[c].cache0
        /\ ~cl[c].reads
        /\ StoredValidAt(Load(file, ProviderName), cl[c].retAt)
        /\ dataToToken(Load(file, ProviderName).entry) # cl[c].tok.tok

\* The step is the return of c's EnsureToken.
EnsureReturns(c) == ~EnsureReturned(c) /\ EnsureReturned(c)'

\* The call r began EnsureToken with no cached token and no stored entry.
FreshStart(r) == ~r.cache0.set /\ r.load0.err = "" /\ ~r.load0.found

\* The token fields of the provider's entry in file f are those of token t.
StoredTokenIs(f, t) ==
    LET l == Load(f, ProviderName)
    IN l.err = "" /\ l.found /\ dataToToken(l.entry) = t

\* C13 as stated: an EnsureToken that begins with no cached token and no
\* stored entry, an auth_fn being installed, has invoked auth_fn exactly once
\* and, when auth_fn returned a token, returns it and has persisted it.
C13_FreshProviderAuthorizesOnce ==
    [][\A c \in Callers :
          (EnsureReturns(c) /\ authFunc /\ FreshStart(cl'[c]))
              => /\ cl'[c].nAuth = 1
                 /\ cl'[c].err = ""
                      => /\ cl'[c].tok.set
                         /\ ptoken' = cl'[c].tok
                         /\ StoredTokenIs(file', cl'[c].tok.tok)]_vars

\* What C13 amended says of the call r that returns, the cache being
\* `cache` and the file f at that moment (w: writes succeed).
C13_AtReturn(r, cache, f, w) ==
    /\ FreshStart(r) =>
          /\ r.nRef = 0
          /\ r.err = "" =>
                /\ r.nAuth = 1
                /\ r.tok.set
                /\ cache = r.tok
                /\ w => StoredTokenIs(f, r.tok.tok)
          /\ r.err # "" =>
                \/ r.nAuth = 1 /\ r.err = "authorization failed"
                \/ r.nAuth = 0
    /\ (r.cache0.set /\ ~IsExpired(r.cache0.tok, r.retAt)) =>
          /\ r.err = ""
          /\ r.tok = r.cache0
          /\ r.nAuth = 0

\* C13 amended: with no cached token, no stored entry and an auth_fn
\* installed, an EnsureToken that succeeds has invoked auth_fn exactly once,
\* returns and caches its token, and has persisted it under the provider's
\* name when the store write succeeded; one that fails has invoked auth_fn
\* once (authorization failed) or not at all (client registration failed);
\* and every EnsureToken that begins while the cached token is valid returns
\* it without invoking auth_fn.
C13_FreshProviderAuthorizesAtMostOnce ==
    [][\A c \in Callers :
          (EnsureReturns(c) /\ authFunc)
              => C13_AtReturn(cl'[c], ptoken', file', writable)]_vars

\* One EnsureToken authorized, starting with nothing, and persisted its
\* token; the other then returned that token from the cache.
C13_Witness ==
    \E c, d \in Callers :
        /\ c # d
        /\ EnsureReturned(c) /\ EnsureReturned(d)
        /\ FreshStart(cl[c])
        /\ cl[c].nAuth = 1 /\ cl[c].err = ""
        /\ StoredTokenIs(file, cl[c].tok.tok)
        /\ cl[d].cache0 = cl[c].tok
        /\ cl[d].tok = cl[c].tok
        /\ cl[d].nAuth = 0

\* The call r began EnsureToken with no valid cached token and a stored
\* entry that was expired and had a refresh token and a client_id.
ExpiredRefreshableStart(r) ==
    /\ ~CacheValid(r.cache0, r.at0)
    /\ r.load0.err = "" /\ r.load0.found
    /\ r.load0.entry.access_token # ""
    /\ IsExpired(dataToToken(r.load0.entry), r.at0)
    /\ r.load0.entry.refresh_token # ""
    /\ r.load0.entry.client_id # ""

\* C14 as stated: such an EnsureToken has sent one refresh request carrying
\* the stored refresh token; when it succeeded the new token is returned and
\* persisted with the client_id unchanged and auth_fn was not invoked; and
\* auth_fn was invoked only when the refresh failed.
C14_RefreshesStoredToken ==
    [][\A c \in Callers :
          (EnsureReturns(c) /\ ExpiredRefreshableStart(cl'[c]))
              => /\ cl'[c].nRef = 1
                 /\ cl'[c].grant = cl'[c].load0.entry.refresh_token
                 /\ cl'[c].nRefOk = 1
                      => /\ cl'[c].err = "" /\ cl'[c].tok.set
                         /\ cl'[c].nAuth = 0
                         /\ ptoken' = cl'[c].tok
                         /\ StoredTokenIs(file', cl'[c].tok.tok)
                         /\ Load(file', ProviderName).entry.client_id
                               = cl'[c].load0.entry.client_id
                 /\ cl'[c].nAuth > 0 => cl'[c].nRefOk = 0]_vars

\* What C14 amended says of the call r that returns.
C14_AtReturn(r, cache, f, w) ==
    ExpiredRefreshableStart(r) =>
        /\ r.nRef = 1
        /\ r.grant = r.load0.entry.refresh_token
        /\ Load(f, ProviderName).entry.client_id = r.load0.entry.client_id
        /\ r.nRefOk = 1
              => /\ r.err = "" /\ r.tok.set
                 /\ r.nAuth = 0
                 /\ cache = r.tok
                 /\ w => StoredTokenIs(f, r.tok.tok)
        /\ r.nAuth > 0 => r.nRefOk = 0

\* C14 amended: as C14, the new token being persisted when the store write
\* succeeds.
C14_RefreshesStoredTokenPersistsIfWritable ==
    [][\A c \in Callers :
          EnsureReturns(c) => C14_AtReturn(cl'[c], ptoken', file', writable)]_vars

\* An EnsureToken refreshed the expired stored token and persisted the new
\* one next to the stored client_id.
C14_Witness ==
    \E c \in Callers :
        /\ EnsureReturned(c)
        /\ ExpiredRefreshableStart(cl[c])
        /\ cl[c].nRefOk = 1
        /\ cl[c].grant = "rt"
        /\ StoredTokenIs(file, cl[c].tok.tok)
        /\ Load(file, ProviderName).entry.client_id = "cid"

\* The call r began EnsureToken with no valid cached token and a stored entry
\* that is expired and has no refresh_token.
ExpiredNoRefreshStart(r) ==
    /\ ~CacheValid(r.cache0, r.at0)
    /\ r.load0.err = "" /\ r.load0.found
    /\ r.load0.entry.access_token # ""
    /\ IsExpired(dataToToken(r.load0.entry), r.at0)
    /\ r.load0.entry.refresh_token = ""

\* C15 as stated: with an auth_fn installed, such an EnsureToken has sent no
\* refresh request, has invoked auth_fn, and afterwards the token fields of
\* the store entry are those of the token auth_fn returned.
C15_ExpiredWithoutRefreshAuthorizes ==
    [][\A c \in Callers :
          (EnsureReturns(c) /\ authFunc /\ ExpiredNoRefreshStart(cl'[c]))
              => /\ cl'[c].nRef = 0
                 /\ cl'[c].nAuth = 1
                 /\ cl'[c].tok.set => StoredTokenIs(file', cl'[c].tok.tok)]_vars

\* What holds of such a call r when its EnsureToken returns, the cache being
\* then cache, the store file f, writable or not (w).
C15_AtReturn(r, cache, f, w) ==
    ExpiredNoRefreshStart(r) =>
        /\ r.nRef = 0
        /\ r.nAuth <= 1
        /\ r.nAuth = 0 => r.err = "dynamic client registration failed"
        /\ r.err = "" <=> r.tok.set
        /\ r.tok.set
              => /\ r.nAuth = 1
                 /\ cache = r.tok
                 /\ w => StoredTokenIs(f, r.tok.tok)
        /\ ~r.tok.set => Load(f, ProviderName).entry.access_token
                            = r.load0.entry.access_token

\* C15 amended: such an EnsureToken sends no refresh request; it invokes
\* auth_fn once unless client registration fails first; the token auth_fn
\* returns is cached and returned, and replaces the token fields of the
\* store entry when the store write succeeds.
C15_ExpiredWithoutRefreshAuthorizesIfRegistered ==
    [][\A c \in Callers :
          (EnsureReturns(c) /\ authFunc)
              => C15_AtReturn(cl'[c], ptoken', file', writable)]_vars

\* An EnsureToken that found an expired stored token without refresh_token
\* returned the token of auth_fn, which replaced the stored one.
C15_Witness ==
    \E c \in Callers :
        /\ EnsureReturned(c)
        /\ authFunc
        /\ ExpiredNoRefreshStart(cl[c])
        /\ cl[c].nAuth = 1
        /\ cl[c].tok.set
        /\ StoredTokenIs(file, cl[c].tok.tok)

\* The call r got no token from the cache or the store: the cached token was
\* not valid, the stored one neither, and no refresh succeeded.
NoUsableToken(r) ==
    /\ ~CacheValid(r.cache0, r.at0)
    /\ ~StoredValidAt(r.load0, r.at0)
    /\ r.nRefOk = 0

\* C16 as stated: with no auth_fn installed, an EnsureToken that gets no
\* token from cache or store returns no token and the error "no valid token
\* available", and has performed no registration and no authorization.
C16_NoAuthFuncFailsWithoutRegistration ==
    [][(EnsureReturns(FirstCaller) /\ ~authFunc /\ NoUsableToken(cl'[FirstCaller]))
          => /\ ~cl'[FirstCaller].tok.set
             /\ cl'[FirstCaller].err = "no valid token available"
             /\ cl'[FirstCaller].nReg = 0
             /\ cl'[FirstCaller].nAuth = 0]_vars

\* What holds of such a call r when its EnsureToken returns.
C16_AtReturn(r) ==
    NoUsableToken(r) =>
        /\ ~r.tok.set
        /\ r.err = "no valid token available"
        /\ r.nAuth = 0
        /\ r.nReg <= 1
        /\ r.nReg = 1
              => /\ r.load0.err = "" /\ r.load0.found
                 /\ IsExpired(dataToToken(r.load0.entry), r.at0)
                 /\ r.load0.entry.refresh_token # ""
                 /\ r.load0.entry.client_id = ""
        /\ r.nRef = 1 => r.nReg = r.nRegOk

\* C16 amended: such an EnsureToken returns no token and the error, and has
\* performed no authorization; it has contacted the registration endpoint
\* only for the refresh of an expired stored token whose entry holds a
\* refresh_token and no client_id, and then once.
C16_NoAuthFuncFailsRegistersOnlyForRefresh ==
    [][(EnsureReturns(FirstCaller) /\ ~authFunc)
          => C16_AtReturn(cl'[FirstCaller])]_vars

\* An EnsureToken without auth_fn failed after it registered a client for a
\* refresh that was then refused.
C16_Witness ==
    /\ EnsureReturned(FirstCaller)
    /\ ~authFunc
    /\ NoUsableToken(cl[FirstCaller])
    /\ cl[FirstCaller].err = "no valid token available"
    /\ cl[FirstCaller].nRegOk = 1
    /\ cl[FirstCaller].nRef = 1

\* The provider's entry in store file f (the zero entry when it has none).
EntryOf(f) ==
    LET l == Load(f, ProviderName)
    IN IF l.err = "" /\ l.found THEN l.entry ELSE ZeroEntry

TokenHalf(e) == <<e.access_token, e.refresh_token, e.expires_in, e.expires_at>>

ClientHalf(e) == <<e.client_id, e.client_secret>>

\* The step persists freshly registered client credentials.
RegistersClient == \E c \in Callers : cl'[c].nRegOk > cl[c].nRegOk

\* The step persists a token got from auth_fn or from a refresh.
AcquiresToken == issued' > issued

\* C17: a step of the provider that persists no registered credentials
\* leaves the stored client_id and client_secret unchanged, a step that
\* persists no token leaves the stored token fields unchanged, and when one
\* step persists credentials and then a token, the credentials it stored are
\* still there after the token was written.
C17_WritesPreserveOtherHalf ==
    [][/\ (~RegistersClient /\ file' # file)
            => ClientHalf(EntryOf(file')) = ClientHalf(EntryOf(file))
       /\ (~AcquiresToken /\ file' # file)
            => TokenHalf(EntryOf(file')) = TokenHalf(EntryOf(file))
       /\ (RegistersClient /\ AcquiresToken /\ writable)
            => /\ ClientHalf(EntryOf(file')) = <<pconfig'.ClientID, pconfig'.ClientSecret>>
               /\ ptoken'.set /\ StoredTokenIs(file', ptoken'.tok)]_vars

\* One call registered a client while the entry held a token, and its
\* authorization failed; the next call found the registered client_id beside
\* that token and wrote its own token, the client_id staying.
C17_Witness ==
    \E c, d \in Callers :
        /\ cl[c].nRegOk = 1 /\ cl[c].nAuth = 1 /\ ~cl[c].tok.set
        /\ cl[c].load0.entry.access_token # ""
        /\ cl[c].load0.entry.client_id = ""
        /\ cl[d].nAuth = 1 /\ cl[d].tok.set
        /\ cl[d].load0.entry.client_id # ""
        /\ TokenHalf(cl[d].load0.entry) = TokenHalf(cl[c].load0.entry)
        /\ EntryOf(file).client_id = cl[d].load0.entry.client_id
        /\ StoredTokenIs(file, cl[d].tok.tok)

\* The step of call c runs ensureClientRegistration.
EnsuresClientRegistration(c) ==
    /\ cl'[c] # cl[c]
    /\ \/ cl[c].pc \in {"et_refresh", "rf_body"}
       \/ cl[c].pc = "et_auth" /\ authFunc

\* C18: ensureClientRegistration calls RegisterClient only when the config
\* has no client_id and the store entry has none; a client_id in the config
\* is kept and the store is not read (an unreadable store is no error); a
\* stored client_id is copied into the config with its client_secret and
\* nothing is registered; and once a registration has succeeded on the
\* provider no later call registers again.
C18_RegistersOnlyWithoutClientId ==
    [][\A c \in Callers :
          EnsuresClientRegistration(c) =>
            /\ cl'[c].nReg > cl[c].nReg
                  => /\ pconfig.ClientID = ""
                     /\ EntryOf(file).client_id = ""
                     /\ \A d \in Callers : cl[d].nRegOk = 0
            /\ pconfig.ClientID # ""
                  => /\ pconfig' = pconfig
                     /\ cl'[c].nReg = cl[c].nReg
                     /\ cl'[c].err \notin {"failed to load OAuth data",
                                           "failed to ensure client registration"}
            /\ (pconfig.ClientID = "" /\ EntryOf(file).client_id # "")
                  => /\ pconfig'.ClientID = EntryOf(file).client_id
                     /\ pconfig'.ClientSecret = EntryOf(file).client_secret
                     /\ cl'[c].nReg = cl[c].nReg]_vars

\* C19: every refresh request and every invocation of auth_fn is made with
\* a config whose client_id is non-empty, and a successful registration
\* leaves a non-empty client_id in the config.
C19_ClientIdBeforeTokenEndpoint ==
    /\ \A c \in Callers : cl[c].cid # ""
    /\ (\E c \in Callers : cl[c].nRegOk > 0) => pconfig.ClientID # ""

\* The parameter names in the query of a URL.
ParamNames(u) == {u.RawQuery[i][1] : i \in DOMAIN u.RawQuery}

\* The parameters authorizeURL sets whatever the config.
RequiredParams ==
    {"response_type", "client_id", "redirect_uri", "state", "code_challenge",
     "code_challenge_method"}

\* The parameters authorizeURL sets for config cfg.
ParamsSet(cfg) == RequiredParams \cup (IF Len(cfg.Scopes) > 0 THEN {"scope"} ELSE {})

\* The value authorizeURL gives parameter k.
ParamValue(cfg, state, challenge, k) ==
    CASE k = "response_type" -> "code"
      [] k = "client_id" -> cfg.ClientID
      [] k = "redirect_uri" -> cfg.RedirectURI
      [] k = "state" -> state
      [] k = "scope" -> Join(cfg.Scopes, " ")
      [] k = "code_challenge" -> challenge
      [] k = "code_challenge_method" -> "S256"

\* C20 as stated: the URL built by authorizeURL carries exactly the six
\* parameters and, iff the scopes list is non-empty, scope; no other
\* parameter appears.
C20_ExactlyTheSevenParameters ==
    (aResult.called /\ aResult.err = "")
        => ParamNames(aResult.url) = ParamsSet(aCfg)

\* C20 amended: the URL carries each of the six parameters, and scope when
\* the scopes list is non-empty, once, with the value taken from the config,
\* the state and the challenge; the other parameters of the query string of
\* authorization_url are retained with their values, and no further
\* parameter appears.
C20_SetsTheSevenParametersKeepsTheRest ==
    (aResult.called /\ aResult.err = "")
        => /\ aResult.url.Base = aCfg.AuthURL.Base
           /\ ParamNames(aResult.url) = ParamsSet(aCfg) \cup ParamNames(aCfg.AuthURL)
           /\ \A k \in ParamsSet(aCfg) :
                ValuesOf(aResult.url.RawQuery, k)
                    = <<ParamValue(aCfg, aState, aChallenge, k)>>
           /\ \A k \in ParamNames(aCfg.AuthURL) \ ParamsSet(aCfg) :
                ValuesOf(aResult.url.RawQuery, k) = ValuesOf(aCfg.AuthURL.RawQuery, k)

\* authorizeURL built a URL from an authorization_url whose query string
\* has a parameter of its own beside one that authorizeURL sets.
C20_Witness ==
    /\ aResult.called /\ aResult.err = ""
    /\ "audience" \in ParamNames(aCfg.AuthURL)
    /\ "client_id" \in ParamNames(aCfg.AuthURL)
    /\ Len(aCfg.Scopes) > 1
    /\ "audience" \in ParamNames(aResult.url)

\* C21: after a Validate that returned no error the redirect_uri is
\* non-empty (the default when it was empty), parses with scheme http and
\* host localhost or 127.0.0.1, and client_id or registration_endpoint is
\* non-empty; and Validate returned an error for a redirect_uri of another
\* scheme or host, for a URL field that does not parse, and for a config with
\* neither client_id nor registration_endpoint.
C21_ValidatedConfig ==
    \A i \in DOMAIN vHist :
        LET b == vHist[i].before
            a == vHist[i].after
            ok == vHist[i].err = ""
            ru == ParseURL(IF b.RedirectURI = "" THEN DefaultRedirectURI ELSE b.RedirectURI)
        IN /\ ok => /\ a.RedirectURI # ""
                    /\ b.RedirectURI = "" => a.RedirectURI = DefaultRedirectURI
                    /\ b.RedirectURI # "" => a.RedirectURI = b.RedirectURI
                    /\ ParseURL(a.RedirectURI).ok
                    /\ ParseURL(a.RedirectURI).Scheme = "http"
                    /\ ParseURL(a.RedirectURI).Hostname \in {"localhost", "127.0.0.1"}
                    /\ a.ClientID # "" \/ a.RegistrationEndpoint # ""
           /\ (ru.ok /\ ru.Scheme # "http") => ~ok
           /\ (ru.ok /\ ru.Hostname \notin {"localhost", "127.0.0.1"}) => ~ok
           /\ (\E f \in {"AuthURL", "TokenURL", "RegistrationEndpoint", "RedirectURI"} :
                 ~ParseURL(b[f]).ok) => ~ok
           /\ (b.ClientID = "" /\ b.RegistrationEndpoint = "") => ~ok

\* Validate accepted a config with an empty redirect_uri and no client_id,
\* and defaulted the redirect_uri.
C21_Witness ==
    /\ Len(vHist) = 1
    /\ vHist[1].err = ""
    /\ vHist[1].before.RedirectURI = ""
    /\ vHist[1].after.RedirectURI = DefaultRedirectURI
    /\ vHist[1].before.ClientID = ""

\* C22: when a Validate succeeds, the next Validate of the same config
\* succeeds too and leaves every field as it was.
C22_ValidateIdempotent ==
    \A i \in DOMAIN vHist :
        (i > 1 /\ vHist[i - 1].err = "")
            => /\ vHist[i].err = ""
               /\ vHist[i].after = vHist[i].before
               /\ vHist[i].before = vHist[i - 1].after

\* A config whose redirect_uri the first Validate defaulted was validated a
\* second time.
C22_Witness ==
    /\ Len(vHist) > 1
    /\ vHist[1].err = ""
    /\ vHist[1].before.RedirectURI = ""
    /\ vHist[1].after # vHist[1].before
    /\ vHist[2].err = ""

\* C23: DiscoverOAuth returns no error when discovery does not succeed: a
\* failed request, a status other than 200, a body that cannot be read or
\* is not JSON, and a document that fails validation all give (nil, nil).
NonSuccess(resp, url) ==
    \/ ~resp.net
    \/ resp.status # StatusOK
    \/ ~resp.readable
    \/ ~resp.json
    \/ validateDiscoveryResponse(resp.doc, ParseURL(url).Scheme, ParseURL(url).Hostname) # ""
C23_DiscoveryNeverFails ==
    (dDisc.called /\ ParseURL(dSrv.URL).ok /\ NonSuccess(dResp, dSrv.URL))
        => (dDisc.cfg = NoConfig /\ dDisc.err = "")

\* C24: DiscoverOAuth accepts the document of a 200 response iff issuer,
\* authorization_endpoint, token_endpoint and response_types_supported are
\* non-empty and the issuer's scheme and host are those of the server URL.
IssuerMatches(issuer, url) ==
    /\ ParseURL(issuer).ok
    /\ ParseURL(issuer).Scheme = ParseURL(url).Scheme
    /\ ParseURL(issuer).Hostname = ParseURL(url).Hostname
C24_AcceptedIffIssuerMatches ==
    (/\ dDisc.called
     /\ ParseURL(dSrv.URL).ok
     /\ dResp.net /\ dResp.status = StatusOK /\ dResp.readable /\ dResp.json)
        => ((dDisc.cfg # NoConfig)
              <=> (/\ dResp.doc.Issuer # ""
                   /\ dResp.doc.AuthorizationEndpoint # ""
                   /\ dResp.doc.TokenEndpoint # ""
                   /\ dResp.doc.ResponseTypesSupported # <<>>
                   /\ IssuerMatches(dResp.doc.Issuer, dSrv.URL)))

\* C25: the config of the provider buildHTTPTransport builds has every
\* setting the oauth block gives, as given, and every omitted setting that
\* discovery provides (authorization_url, token_url, scopes); with OAuth
\* enabled and usable endpoints from either source, a provider is built.
Given(o, f) == o[f] # IF f = "Scopes" THEN <<>> ELSE ""
SettingNames == {"ClientID", "ClientSecret", "AuthURL", "TokenURL", "Scopes", "RedirectURI"}
DiscoveredSettings == {"AuthURL", "TokenURL", "Scopes"}
C25_ExplicitKeptOmittedFilled ==
    LET o == dSrv.OAuth
        d == DiscoverOAuth(dSrv.URL, dResp)
        has(f) == Given(o, f) \/ (f \in DiscoveredSettings /\ d.cfg # NoConfig)
    IN (dTransport.built /\ IsEnabled(o))
        => /\ (has("AuthURL") /\ has("TokenURL")
                 /\ (Given(o, "ClientID")
                       \/ (d.cfg # NoConfig /\ d.cfg.RegistrationEndpoint # "")))
                  => dTransport.oauth
           /\ dTransport.oauth =>
                \A f \in SettingNames :
                    /\ Given(o, f) => dTransport.cfg[f] = o[f]
                    /\ (~Given(o, f) /\ f \in DiscoveredSettings /\ d.cfg # NoConfig)
                          => dTransport.cfg[f] = d.cfg[f]

\* C26 (as stated): a token request whose response was read returns a token
\* with expires_at = now + expires_in for every 2xx status, and an error
\* carrying the status and the body, and no token, for every other status.
ReturnsToken ==
    /\ tOut.err = ""
    /\ tOut.tok.set
    /\ tOut.tok.tok.AccessToken = tCall.resp.doc.AccessToken
    /\ tOut.tok.tok.RefreshToken = tCall.resp.doc.RefreshToken
    /\ tOut.tok.tok.ExpiresIn = tCall.resp.doc.ExpiresIn
    /\ tOut.tok.tok.ExpiresAt = tCall.time + tCall.resp.doc.ExpiresIn
ReturnsStatusError ==
    /\ tOut.err # ""
    /\ ~tOut.tok.set
    /\ tOut.status = tCall.resp.status
    /\ tOut.body = [json |-> tCall.resp.json, doc |-> tCall.resp.doc]
C26_TokenOn2xxErrorOtherwise ==
    (tOut.called /\ tCall.resp.net /\ tCall.resp.readable /\ tCall.resp.json)
        => IF tCall.resp.status \in 200..299 THEN ReturnsToken ELSE ReturnsStatusError

\* C26 (amended): the token is returned for status 200 with a JSON body;
\* every other status gives the error with status and body; a 200 whose
\* body is not JSON gives a parse error; none of the errors comes with a
\* token.
C26_TokenOn200ErrorOtherwise ==
    (tOut.called /\ tCall.resp.net /\ tCall.resp.readable)
        => /\ (tCall.resp.status = StatusOK /\ tCall.resp.json) => ReturnsToken
           /\ tCall.resp.status # StatusOK => ReturnsStatusError
           /\ (tCall.resp.status = StatusOK /\ ~tCall.resp.json)
                 => (tOut.err = "failed to parse token response" /\ ~tOut.tok.set)

\* A refresh was answered 201 with a token document and returned the
\* status error.
C26_Witness ==
    /\ tOut.called
    /\ tCall.grant = "refresh_token"
    /\ tCall.resp.status = 201
    /\ tCall.resp.json
    /\ tCall.resp.doc.AccessToken = "at"
    /\ tOut.err = "token request failed: status, body"
    /\ tOut.status = 201

\* The step is the return of c's RefreshToken.
RefreshReturns(c) == cl[c].pc = "rf_body" /\ cl'[c].pc # "rf_body"

\* The refresh token of the cached token when it has one, otherwise that of
\* the store entry ("" when neither has one).
RefreshSource ==
    IF ptoken.set /\ ptoken.tok.RefreshToken # ""
    THEN ptoken.tok.RefreshToken
    ELSE EntryOf(file).refresh_token

\* The step sends a request to the token endpoint.
ContactsTokenEndpoint(c) == issued' > issued \/ cl'[c].err = "token request failed"

\* What C27 says of a return of RefreshToken, apart from persistence.
C27_SourceAndErrors(c) ==
    /\ ContactsTokenEndpoint(c)
          => (RefreshSource # "" /\ cl'[c].grant = RefreshSource)
    /\ RefreshSource = ""
          => (cl'[c].err # "" /\ ~ContactsTokenEndpoint(c) /\ ptoken' = ptoken)
    /\ cl'[c].err = "no refresh token available" => RefreshSource = ""
    /\ (cl'[c].nReg > cl[c].nReg /\ cl'[c].nRegOk = cl[c].nRegOk)
          => /\ cl'[c].err = "failed to ensure client registration"
             /\ ~ContactsTokenEndpoint(c)
             /\ ptoken' = ptoken
    /\ issued' > issued
          => (cl'[c].err = "" /\ ptoken'.set /\ ptoken' = cl'[c].ntok)

\* C27 as stated: RefreshToken uses the cached refresh token, else the
\* stored one; with neither, or when registration fails, it returns an error
\* without a token request; after a successful refresh the new token is the
\* cached token and is persisted.
C27_RefreshSourcesCachesPersists ==
    [][\A c \in Callers :
          RefreshReturns(c)
              => /\ C27_SourceAndErrors(c)
                 /\ issued' > issued => StoredTokenIs(file', ptoken'.tok)]_vars

\* C27 amended: as C27, the new token being persisted when the store write
\* succeeds (the store file is writable and parses).
C27_RefreshSourcesCachesPersistsIfWritten ==
    [][\A c \in Callers :
          RefreshReturns(c)
              => /\ C27_SourceAndErrors(c)
                 /\ (issued' > issued /\ writable /\ Load(file, ProviderName).err = "")
                        => StoredTokenIs(file', ptoken'.tok)]_vars

\* A RefreshToken called with an empty cache took the refresh token of the
\* store entry, cached the new token and persisted it.
C27_Witness ==
    \E c \in Callers :
        /\ cl[c].op = "RefreshToken" /\ cl[c].pc = "ret"
        /\ cl[c].err = ""
        /\ cl[c].grant = "rt"
        /\ cl[c].load0 = NoEntry
        /\ ptoken = cl[c].ntok
        /\ StoredTokenIs(file, ptoken.tok)
        /\ ptoken.tok.AccessToken = "t1"

\* The step of call c obtains a token from auth_fn or from a refresh.
ObtainsToken(c) ==
    /\ cl[c].pc \in {"et_refresh", "et_auth", "rf_body"}
    /\ cl'[c].pc # cl[c].pc
    /\ issued' > issued

\* The token the step of call c returns to the caller of EnsureToken or
\* RefreshToken.
ReturnedBy(c) == IF cl[c].pc = "rf_body" THEN cl'[c].ntok ELSE cl'[c].tok

\* C28: when a token is obtained and the store does not hold it afterwards
\* (the write failed), the call returns that token without error and it is
\* the cached token; and an EnsureToken that begins while a cached token the
\* store does not hold is valid returns that token.
C28_WriteFailureKeepsToken ==
    [][\A c \in Callers :
          /\ (ObtainsToken(c) /\ ~StoredTokenIs(file', ptoken'.tok))
                => /\ cl'[c].err = ""
                   /\ ptoken'.set
                   /\ ptoken'.tok.AccessToken = AccessTokens[issued']
                   /\ ReturnedBy(c) = ptoken'
          /\ (EnsureReturns(c) /\ CacheValid(cl'[c].cache0, cl'[c].at0)
                /\ ~StoredTokenIs(file, cl'[c].cache0.tok))
                => /\ cl'[c].err = ""
                   /\ cl'[c].tok = cl'[c].cache0
                   /\ cl'[c].nAuth = 0 /\ cl'[c].nRef = 0]_vars

\* The store could not be written; one call obtained a token from auth_fn,
\* and a later EnsureToken returned it from the cache.
C28_Witness ==
    \E c, d \in Callers :
        /\ c # d
        /\ ~writable
        /\ cl[c].nAuth = 1 /\ cl[c].err = "" /\ cl[c].tok.set
        /\ EnsureReturned(d) /\ cl[d].err = ""
        /\ cl[d].cache0 = cl[c].tok
        /\ cl[d].tok = cl[c].tok
        /\ ~StoredTokenIs(file, cl[d].tok.tok)

\* C29: when the store read of an EnsureToken fails (the file cannot be read
\* or does not parse), EnsureToken returns that error: it returns no token
\* and has not gone on to auth_fn as if there were no stored token.
C29_StoreErrorReturned ==
    \A c \in Callers :
        (EnsureReturned(c) /\ cl[c].reads /\ cl[c].load0.err # "")
            => /\ cl[c].err = cl[c].load0.err
               /\ ~cl[c].tok.set
               /\ cl[c].nAuth = 0

\* Call c is a RoundTrip past rt.mu.Lock() that has not returned.
InRoundTrip(c) == cl[c].op = "RoundTrip" /\ cl[c].pc \notin {"idle", "rt_lock", "ret"}

\* Call c is a RoundTrip between the acquisition of its token and the
\* answer to its request.
Outbound(c) == cl[c].op = "RoundTrip" /\ cl[c].pc \in {"rt_send", "rt_resend"}

LastObtained(r) == IF r.ntok.set THEN r.ntok.tok.AccessToken ELSE r.tok.tok.AccessToken

\* C31: a RoundTrip whose EnsureToken returned an error, or whose refresh
\* before sending failed, returns an error without invoking the transport;
\* and every request it forwards carries as bearer the access token the
\* provider last returned to it.
C31_FailFastAndBearer ==
    [][\A c \in Callers :
          cl[c].op = "RoundTrip" =>
            /\ (cl[c].pc = "rt_checked" /\ cl[c].err # "" /\ cl'[c] # cl[c])
                  => /\ cl'[c].pc = "ret"
                     /\ cl'[c].wrap = "failed to get OAuth token"
                     /\ cl'[c].sends = 0 /\ cl'[c].ret = ""
            /\ (cl[c].pc = "rt_checked" /\ cl[c].err = "" /\ cl'[c] # cl[c])
                  => (cl'[c].pc = "rf_lock" <=> IsExpired(cl[c].tok.tok, now))
            /\ (cl[c].pc = "rf_body" /\ cl[c].sends = 0 /\ cl'[c].err # "")
                  => cl'[c].pc = "rt_fail"
            /\ (cl[c].pc = "rt_fail" /\ cl[c].sends = 0 /\ cl'[c] # cl[c])
                  => /\ cl'[c].pc = "ret"
                     /\ cl'[c].wrap = "failed to refresh OAuth token"
                     /\ cl'[c].sends = 0 /\ cl'[c].ret = ""
            /\ cl'[c].sends > cl[c].sends
                  => /\ cl[c].err = ""
                     /\ cl[c].tok.set
                     /\ cl[c].sends = 0 => cl'[c].bearer1 = LastObtained(cl[c])
                     /\ cl[c].sends = 1 => cl'[c].bearer2 = LastObtained(cl[c])]_vars

\* A RoundTrip got an expired token from EnsureToken, refreshed it and sent
\* the request with the refreshed token.
C31_Witness ==
    \E c \in Callers :
        /\ cl[c].op = "RoundTrip"
        /\ cl[c].sends = 1
        /\ cl[c].ntok.set
        /\ cl[c].bearer1 = cl[c].ntok.tok.AccessToken
        /\ cl[c].bearer1 # cl[c].tok.tok.AccessToken
        /\ cl[c].resp1 = "200"

\* C32: StartAuthFlow returns in every run; when it returns without having
\* received a callback result, it returns the error of the wait and no
\* token, and no token exchange was attempted.
C32_FlowTerminates ==
    /\ <>(flow = "returned")
    /\ []((flow = "returned" /\ ~received.got)
            => /\ flowRet.err = "failed waiting for OAuth callback"
               /\ ~flowRet.token
               /\ exchangeLog = <<>>)

\* The flow returned on its timeout while a request was still on its way
\* to sendResult.
C32_Witness ==
    /\ flow = "returned"
    /\ ~received.got
    /\ flowRet.err = "failed waiting for OAuth callback"
    /\ exchangeLog = <<>>
    /\ \E h \in Handlers : hpc[h] = "once_do"

\* The value of parameter k in the authorization URL flow f built.
FlowParam(f, k) == Query(fl[f].url)[k]

\* Flow f has built its authorization URL.
BuiltURL(f) == fl[f].url # NoURL

\* C33: every authorization URL a flow builds carries a non-empty
\* code_challenge and code_challenge_method=S256, and every token exchange
\* carries a non-empty code_verifier whose S256 digest is the challenge in
\* the authorization URL of the same flow.
C33_PKCEOnEveryFlow ==
    \A f \in Flows :
        /\ BuiltURL(f) =>
              /\ {"code_challenge", "code_challenge_method"} \subseteq DOMAIN Query(fl[f].url)
              /\ FlowParam(f, "code_challenge") = <<fl[f].challenge>>
              /\ fl[f].challenge # ""
              /\ FlowParam(f, "code_challenge_method") = <<"S256">>
        /\ fl[f].form.sent =>
              /\ BuiltURL(f)
              /\ fl[f].form.code_verifier # ""
              /\ <<S256(fl[f].form.code_verifier)>> = FlowParam(f, "code_challenge")

\* Two flows with different verifiers have both exchanged their codes.
C33_Witness ==
    /\ \A f \in Flows : fl[f].form.sent
    /\ fl[1].form.code_verifier # fl[2].form.code_verifier

\* C37: the redirect_uri a provider sent in its registration request is
\* the redirect_uri of the authorization URL and of the token exchange of
\* the flow that uses the registered client_id.
C37_RedirectURISameAsRegistered ==
    \A f \in Flows :
        (fl[f].reg # "" /\ BuiltURL(f)) =>
            /\ FlowParam(f, "redirect_uri") = <<fl[f].reg>>
            /\ fl[f].form.sent => fl[f].form.redirect_uri = fl[f].reg

\* C34: while Initialize has never been called, WaitForInit does not block
\* (the case of initDone is ready) and a call that has returned returned nil.
C34_ReturnsNilWithoutInitialize ==
    (\A i \in Initializers : ipc[i] = "idle") =>
        \A w \in Waiters :
            /\ wpc[w] = "waiting" => initDone = "closed"
            /\ wpc[w] = "returned" => wret[w] = "nil"

\* The positions of the last windowSize steps.
LastSteps(steps, windowSize) == (Len(steps) - windowSize + 1)..Len(steps)

\* How often signature sig occurs among the last windowSize steps.
Occurrences(steps, windowSize, sig) ==
    Cardinality({i \in LastSteps(steps, windowSize) :
                    getToolInteractionSignature(steps[i]) = sig})

\* Some non-empty signature occurs more than maxRepeats times among the
\* last windowSize steps.
IsLoop(steps, windowSize, maxRepeats) ==
    /\ Len(steps) >= windowSize
    /\ \E i \in LastSteps(steps, windowSize) :
         /\ getToolInteractionSignature(steps[i]) # ""
         /\ Occurrences(steps, windowSize, getToolInteractionSignature(steps[i])) > maxRepeats

\* C35: hasRepeatedToolCalls returns true iff there are at least
\* windowSize steps and a non-empty tool-interaction signature occurs
\* strictly more than maxRepeats times among the last windowSize of them;
\* steps without tool calls have the empty signature and are not counted.
C35_TrueIffRepeatedInWindow ==
    lOut.called =>
        /\ lOut.result = IsLoop(lSteps, lWindow, lMax)
        /\ \A i \in DOMAIN lSteps :
             (getToolInteractionSignature(lSteps[i]) = "") = (lSteps[i] = <<>>)

\* A loop is reported for more steps than the window, with a step without
\* tool calls between the repeated ones.
C35_Witness ==
    /\ lOut.called
    /\ lOut.result
    /\ Len(lSteps) > lWindow
    /\ lMax > 0
    /\ \E i \in LastSteps(lSteps, lWindow) : lSteps[i] = <<>>

\* A step of goroutine t inside a call.
ThreadStep(t) ==
    \/ RoundTripMuLock(t)
    \/ RoundTripNext(t)
    \/ RoundTripMuUnlock(t)
    \/ ProviderMuLock(t)
    \/ ProviderNext(t)
    \/ ProviderMuUnlock(t)
    \/ StoreMuRLock(t)
    \/ StoreMuLockPending(t)
    \/ StoreMuLock(t)
    \/ StoreMuUnlock(t)
    \/ Finish(t)

\* The goroutines that hold (or, for a reader, precede it in) the lock
\* goroutine t is waiting to acquire.
WaitsFor(t) ==
    CASE th[t].pc = "rt_lock" -> {lk.rt} \ {NoThread}
      [] th[t].pc = "p_lock" -> {lk.p} \ {NoThread}
      [] th[t].pc = "s_lock" -> ({lk.s.writer} \ {NoThread}) \cup lk.s.pending
      [] th[t].pc = "s_wait" -> ({lk.s.writer} \ {NoThread}) \cup lk.s.readers
      [] OTHER -> {}

\* The goroutines of D are inside calls, none can take a step, and each
\* waits only for goroutines of D.
Deadlocked(D) ==
    /\ D # {}
    /\ \A t \in D :
         /\ th[t].pc # "idle"
         /\ ~ENABLED ThreadStep(t)
         /\ WaitsFor(t) \subseteq D

\* The locks in acquisition order: rt.mu before p.mu before s.mu.
LockOrders ==
    {<<>>, <<"rt">>, <<"p">>, <<"s">>, <<"rt", "p">>, <<"p", "s">>, <<"rt", "p", "s">>}

\* Goroutine t holds no lock and awaits none.
HoldsNothing(t) ==
    /\ th[t].held = <<>>
    /\ lk.rt # t
    /\ lk.p # t
    /\ lk.s.writer # t
    /\ t \notin lk.s.readers
    /\ t \notin lk.s.pending

\* C36: no set of goroutines calling RoundTrip, EnsureToken, RefreshToken,
\* SetAuthFunc, Load and Save is deadlocked; every goroutine holds its
\* locks in the order round tripper, provider, store, and acquires a lock
\* only while it holds none of this or a later rank; a call that has
\* returned, with or without error, holds no lock.
C36_NoDeadlockLocksOrdered ==
    /\ \A D \in SUBSET Threads : ~Deadlocked(D)
    /\ \A t \in Threads :
         /\ th[t].held \in LockOrders
         /\ th[t].pc = "rt_lock" => th[t].held = <<>>
         /\ th[t].pc = "p_lock" => th[t].held \in {<<>>, <<"rt">>}
         /\ th[t].pc \in {"s_lock", "s_wait"} => th[t].held \in {<<>>, <<"p">>, <<"rt", "p">>}
         /\ th[t].pc \in {"idle", "done"} => HoldsNothing(t)

\* One goroutine holds all three mutexes inside a RoundTrip while another
\* waits for the round tripper's.
C36_Witness ==
    \E t, u \in Threads :
        /\ th[t].held = <<"rt", "p", "s">>
        /\ th[u].pc = "rt_lock"
        /\ ~ENABLED ThreadStep(u)

\* The four token fields of token t, in the order of TokenHalf.
TokenFields(t) == <<t.AccessToken, t.RefreshToken, t.ExpiresIn, t.ExpiresAt>>

\* The store entry of the provider in file f has the token fields of the
\* cached token cache.
StoreMatchesCache(f, cache) ==
    /\ cache.set
    /\ Load(f, ProviderName).err = ""
    /\ Load(f, ProviderName).found
    /\ TokenHalf(EntryOf(f)) = TokenFields(cache.tok)

\* Writes of the store succeed: the directory is writable and the file,
\* when it exists, can be read and parsed.
StoreWritesSucceed == writable /\ Load(file, ProviderName).err = ""

\* C38: store writes succeeding, when EnsureToken returns a token that it
\* did not take from the cache, and when RefreshToken returns a token, the
\* token fields of the store entry are those of the cached token.
C38_StoreMatchesCacheAfterSuccess ==
    [][\A c \in Callers :
          /\ (EnsureReturns(c) /\ cl'[c].err = "" /\ StoreWritesSucceed
                /\ ~CacheValid(cl'[c].cache0, cl'[c].at0))
                => StoreMatchesCache(file', ptoken')
          /\ (RefreshReturns(c) /\ cl'[c].err = "" /\ StoreWritesSucceed)
                => StoreMatchesCache(file', ptoken')]_vars

\* An EnsureToken that found a valid stored token, and a RefreshToken after
\* it, have both returned: the entry holds the refreshed token, which is
\* the cached one.
C38_Witness ==
    \E c \in Callers :
        /\ cl[c].op = "RoundTrip" /\ cl[c].pc = "ret"
        /\ cl[c].err = ""
        /\ ~cl[c].cache0.set
        /\ cl[c].load0.found
        /\ cl[c].nAuth = 0
        /\ cl[c].nRefOk = 1
        /\ writable
        /\ StoreMatchesCache(file, ptoken)
        /\ ptoken.tok.AccessToken = "t1"

\* The entry a Load returned, the zero entry when it returned none.
EntryLoaded(l) == IF l.err = "" /\ l.found THEN l.entry ELSE ZeroEntry

\* C39: when EnsureToken returns an error, the cached token and the token
\* fields of the store entry are those the call found when it entered; when
\* RefreshToken returns an error, its step has changed neither.
C39_ErrorLeavesTokens ==
    [][\A c \in Callers :
          /\ (EnsureReturns(c) /\ cl'[c].err # "")
                => /\ ptoken' = cl'[c].cache0
                   /\ TokenHalf(EntryOf(file')) = TokenHalf(EntryLoaded(cl'[c].load0))
                   /\ Load(file', ProviderName).err = cl'[c].load0.err
          /\ (RefreshReturns(c) /\ cl'[c].err # "")
                => /\ ptoken' = ptoken
                   /\ TokenHalf(EntryOf(file')) = TokenHalf(EntryOf(file))
                   /\ Load(file', ProviderName).err = Load(file, ProviderName).err]_vars

\* An EnsureToken that registered a client for the refresh of the stored
\* token, failed to refresh and had no auth_fn has returned its error: the
\* stored token is still there beside the new client_id.
C39_Witness ==
    \E c \in Callers :
        /\ cl[c].op = "EnsureToken" /\ cl[c].pc = "ret"
        /\ cl[c].err # ""
        /\ cl[c].nRegOk = 1
        /\ cl[c].nRef = 1
        /\ cl[c].load0.found
        /\ cl[c].load0.entry.refresh_token # ""
        /\ TokenHalf(EntryOf(file)) = TokenHalf(cl[c].load0.entry)
        /\ EntryOf(file).client_id # cl[c].load0.entry.client_id
        /\ ptoken = cl[c].cache0

\* The step of call c is a successful refresh (inside EnsureToken or
\* RefreshToken); it used the refresh token the provider had.
RefreshSucceeds(c) == cl'[c].nRefOk > cl[c].nRefOk

\* C40: after a successful refresh the cached token or the store entry of
\* the provider has a non-empty refresh token, whatever the token endpoint
\* answered.
C40_RefreshKeepsRefreshToken ==
    [][\A c \in Callers :
          RefreshSucceeds(c)
              => \/ ptoken'.set /\ ptoken'.tok.RefreshToken # ""
                 \/ EntryOf(file').refresh_token # ""]_vars

====
